---- MODULE Spec2Model ----
(***************************************************************************)
(* Market regime classification service                                    *)
(* (backend/services/market_regime_service.py).                            *)
(*                                                                         *)
(* Representation.  Every Python float is a fixed-point integer in units   *)
(* of 0.001 ("milli"): cvd_ratio 0.15 is 150, rsi 70.0 is 70000, a taker   *)
(* ratio of 33 is 33000.  Comparisons against products and quotients of    *)
(* thresholds are cross-multiplied so that they stay exact.  Prices of     *)
(* candles and ATR values share one (arbitrary) integer price unit.        *)
(* Python's None for an Optional[int] is the empty set, a value n is {n}.  *)
(* A dict handed back to the caller is the set of its <<key, value>>       *)
(* pairs.                                                                  *)
(***************************************************************************)
EXTENDS Integers, Sequences, FiniteSets, TLC

VARIABLES
    pc,             \* position inside get_market_regime / the classifier call
    db_configs,     \* rows of MarketRegimeConfig the session can see
    config_id,      \* argument config_id (Optional[int])
    timeframe,      \* argument timeframe
    use_realtime,   \* argument use_realtime
    config,         \* local config (NoRow is None)
    cvd_data,       \* local cvd_data      = flow_data.get("CVD")
    taker_data,     \* local taker_data    = flow_data.get("TAKER")
    oi_delta_data,  \* local oi_delta_data = flow_data.get("OI_DELTA")
    kline_data,     \* local kline_data (sequence of candles)
    fv,             \* locals cvd_ratio, taker_log_ratio, oi_delta, price_atr, rsi, price_range_atr
    classified,     \* locals (regime, reason) returned by classify_regime
    result,         \* the dict get_market_regime returns
    trace,          \* collaborator calls and pipeline stages executed so far, in order
    indicators,     \* local indicators returned by calculate_indicators
    flow_rows,      \* rows of MarketTradesAggregated the session can see
    ohlc_args,      \* arguments of fetch_ohlc_from_flow (symbol, period, limit, current_time_ms)
    buckets,        \* local buckets of fetch_ohlc_from_flow: bucket_start -> records
    ohlc_result,    \* the list fetch_ohlc_from_flow returns
    penalties,      \* locals pattern_penalty and direction_penalty of get_market_regime
    regimes_seen,   \* the regimes classify_regime has returned so far
    kline_rows,     \* rows of CryptoKline the session can see
    feed,           \* what get_kline_data_from_hyperliquid answers (or that it raises)
    kline_args,     \* arguments of fetch_kline_data / _fetch_kline_with_realtime
    kline_result    \* the list fetch_kline_data / _fetch_kline_with_realtime returns

vars == <<pc, db_configs, config_id, timeframe, use_realtime, config, cvd_data,
          taker_data, oi_delta_data, kline_data, fv, classified, result, trace,
          indicators, flow_rows, ohlc_args, buckets, ohlc_result,
          penalties, regimes_seen, kline_rows, feed, kline_args, kline_result>>

\* The state of fetch_ohlc_from_flow, which get_market_regime never touches.
bucketer_vars == <<flow_rows, ohlc_args, buckets, ohlc_result>>

\* The state of fetch_kline_data and _fetch_kline_with_realtime.
candle_vars == <<kline_rows, feed, kline_args, kline_result>>

----------------------------------------------------------------------------
(* Bounds of the model *)

\* Longest candle sequence the candle read hands back (the code asks for 50).
MaxKlines == 15
\* Magnitude of the out-of-range readings the collaborators may deliver: the
\* OI delta reaches MaxMagnitude percent and the CVD 4 * MaxMagnitude notional
\* units, beyond the caps of calculate_confidence.
MaxMagnitude == 10

----------------------------------------------------------------------------
(* Arithmetic helpers *)

Abs(x) == IF x < 0 THEN -x ELSE x

Min(a, b) == IF a < b THEN a ELSE b

Max(a, b) == IF a > b THEN a ELSE b

\* Python float division on fixed-point operands, rounded to the nearest
\* representable value: a / b carrying `num` already scaled.
DivRound(num, den) ==
    IF num >= 0 THEN (num + (den \div 2)) \div den
    ELSE -(((-num) + (den \div 2)) \div den)

\* round(x, 1) of a milli value: to the nearest multiple of 100.
Round1(x) == 100 * DivRound(x, 100)

\* ln(x) for x in [1, 2), x in milli, result in units of 0.0001:
\* 2 * atanh((x-1)/(x+1)) by its series up to the fifth power.
LnMantissa(x) ==
    LET t  == ((x - 1000) * 10000) \div (x + 1000)
        t2 == (t * t) \div 10000
        t3 == (t2 * t) \div 10000
        t5 == (t3 * t2) \div 10000
    IN  2 * (t + (t3 \div 3) + (t5 \div 5))

\* math.log(x), x > 0 in milli, result in units of 0.0001 (ln 2 = 0.6931).
RECURSIVE LnTenThousandths(_)
LnTenThousandths(x) ==
    IF x >= 2000 THEN 6931 + LnTenThousandths(x \div 2)
    ELSE IF x < 1000 THEN LnTenThousandths(2 * x) - 6931
    ELSE LnMantissa(x)

\* math.log(x) for x > 0, argument and result in milli.
Ln(x) == DivRound(LnTenThousandths(x), 10)

\* exp(r) for 0 <= r < ln 2, r in units of 0.0001, result in units of 0.0001.
ExpMantissa(r) ==
    LET r2 == (r * r) \div 10000
        r3 == (r2 * r) \div 10000
        r4 == (r3 * r) \div 10000
        r5 == (r4 * r) \div 10000
    IN  10000 + r + (r2 \div 2) + (r3 \div 6) + (r4 \div 24) + (r5 \div 120)

RECURSIVE ExpTenThousandths(_)
ExpTenThousandths(r) ==
    IF r >= 6931 THEN 2 * ExpTenThousandths(r - 6931)
    ELSE IF r < 0 THEN ExpTenThousandths(r + 6931) \div 2
    ELSE ExpMantissa(r)

\* math.exp(x), argument and result in milli.
Exp(x) == DivRound(ExpTenThousandths(10 * x), 10)

----------------------------------------------------------------------------
(* Constants of the service *)

REGIME_STOP_HUNT == "stop_hunt"
REGIME_ABSORPTION == "absorption"
REGIME_BREAKOUT == "breakout"
REGIME_CONTINUATION == "continuation"
REGIME_EXHAUSTION == "exhaustion"
REGIME_TRAP == "trap"
REGIME_NOISE == "noise"

DIRECTION_BULLISH == "bullish"
DIRECTION_BEARISH == "bearish"
DIRECTION_NEUTRAL == "neutral"

Regimes ==
    {REGIME_STOP_HUNT, REGIME_ABSORPTION, REGIME_BREAKOUT, REGIME_CONTINUATION,
     REGIME_EXHAUSTION, REGIME_TRAP, REGIME_NOISE}

\* Keys of TIMEFRAME_MS, the timeframes the flow service supports.
TIMEFRAME_MS == {"1m", "5m", "15m", "1h"}

----------------------------------------------------------------------------
(* MarketRegimeConfig rows.  Thresholds are milli values. *)

\* The thresholds the comments of classify_regime describe: cvd_strong 0.15,
\* breakout price 0.5, price move 0.3, taker thresholds 33 and 0.03.
DefaultRow ==
    [id |-> 1, is_default |-> TRUE,
     breakout_cvd_z |-> 1500, breakout_price_atr |-> 300,
     absorption_price_atr |-> 300, breakout_oi_z |-> 1000, trap_oi_z |-> -1000,
     breakout_taker_high |-> 33000, breakout_taker_low |-> 30,
     stop_hunt_range_atr |-> 1500, stop_hunt_close_atr |-> 200,
     exhaustion_rsi_high |-> 70000, exhaustion_rsi_low |-> 30000]

\* A second row: other thresholds (a stop-hunt close band, 0.6, wider than the
\* breakout move, 0.4, so that the stop-hunt and the breakout rule can both
\* match), and taker thresholds left unset (0), for which classify_regime
\* falls back to the log thresholds +3.5 and -3.5.
CustomRow ==
    [id |-> 2, is_default |-> FALSE,
     breakout_cvd_z |-> 1000, breakout_price_atr |-> 200,
     absorption_price_atr |-> 200, breakout_oi_z |-> 2000, trap_oi_z |-> -2000,
     breakout_taker_high |-> 0, breakout_taker_low |-> 0,
     stop_hunt_range_atr |-> 500, stop_hunt_close_atr |-> 600,
     exhaustion_rsi_high |-> 75000, exhaustion_rsi_low |-> 25000]

\* A third row with near taker thresholds (2 and 0.5), so that the taker
\* ratios the flow service reports reach the "extreme" band.
TightRow ==
    [id |-> 3, is_default |-> FALSE,
     breakout_cvd_z |-> 1500, breakout_price_atr |-> 300,
     absorption_price_atr |-> 300, breakout_oi_z |-> 1000, trap_oi_z |-> -1000,
     breakout_taker_high |-> 2000, breakout_taker_low |-> 500,
     stop_hunt_range_atr |-> 1500, stop_hunt_close_atr |-> 200,
     exhaustion_rsi_high |-> 70000, exhaustion_rsi_low |-> 30000]

\* Query(...).first() finding no row: Python's None.
NoRow ==
    [id |-> 0, is_default |-> FALSE,
     breakout_cvd_z |-> 0, breakout_price_atr |-> 0,
     absorption_price_atr |-> 0, breakout_oi_z |-> 0, trap_oi_z |-> 0,
     breakout_taker_high |-> 0, breakout_taker_low |-> 0,
     stop_hunt_range_atr |-> 0, stop_hunt_close_atr |-> 0,
     exhaustion_rsi_high |-> 0, exhaustion_rsi_low |-> 0]

ConfigRows == {DefaultRow, CustomRow, TightRow}

----------------------------------------------------------------------------
(* classify_regime *)

\* cvd_price_aligned of classify_regime.
\* Variant: both move, whatever their signs.
cvd_price_aligned_any_sign(cvd_ratio, price_atr) ==
    cvd_ratio # 0 /\ price_atr # 0

cvd_price_aligned(cvd_ratio, price_atr) ==
    (cvd_ratio > 0 /\ price_atr > 0) \/ (cvd_ratio < 0 /\ price_atr < 0)

taker_high_log(cfg) ==
    IF cfg.breakout_taker_high > 0 THEN Ln(cfg.breakout_taker_high) ELSE 3500

taker_low_log(cfg) ==
    IF cfg.breakout_taker_low > 0 THEN Ln(cfg.breakout_taker_low) ELSE -3500

is_taker_extreme(taker_log_ratio, cfg) ==
    taker_log_ratio > taker_high_log(cfg) \/ taker_log_ratio < taker_low_log(cfg)

\* abs(cvd_ratio) > cvd_strong, cvd_strong = config.breakout_cvd_z * 0.1
\* (both sides times 10).
is_cvd_strong(cvd_ratio, cfg) == 10 * Abs(cvd_ratio) > cfg.breakout_cvd_z

\* Variant: ">=" for ">".
is_cvd_weak_inclusive(cvd_ratio, cfg) == 30 * Abs(cvd_ratio) >= cfg.breakout_cvd_z

\* abs(cvd_ratio) > cvd_weak, cvd_weak = cvd_strong / 3 (both sides times 30).
is_cvd_weak(cvd_ratio, cfg) == 30 * Abs(cvd_ratio) > cfg.breakout_cvd_z

\* abs(price_atr) > price_breakout, price_breakout = config.breakout_price_atr + 0.2.
is_price_breakout(price_atr, cfg) == Abs(price_atr) > cfg.breakout_price_atr + 200

is_oi_increase(oi_delta, cfg) == oi_delta > cfg.breakout_oi_z

\* Variant: body_ratio >= 0.4.
is_solid_move_inclusive(price_atr, price_range_atr) ==
    IF price_range_atr > 0 THEN 10 * Abs(price_atr) >= 4 * price_range_atr ELSE TRUE

\* body_ratio > 0.4, body_ratio = abs(price_atr) / price_range_atr when the
\* range is positive and 1.0 otherwise (both sides times 10 * range).
is_solid_move(price_atr, price_range_atr) ==
    IF price_range_atr > 0 THEN 10 * Abs(price_atr) > 4 * price_range_atr ELSE TRUE

\* Variant: an OI decrease is never seen.
is_oi_decrease_never(oi_delta, cfg) == FALSE

is_oi_decrease(oi_delta, cfg) == oi_delta < cfg.trap_oi_z

\* Variant: ">=" and "<=" for ">" and "<".
rsi_extreme_inclusive(rsi, cfg) ==
    rsi >= cfg.exhaustion_rsi_high \/ rsi <= cfg.exhaustion_rsi_low

rsi_extreme(rsi, cfg) == rsi > cfg.exhaustion_rsi_high \/ rsi < cfg.exhaustion_rsi_low

\* Variant: ">=" for ">".
is_price_move_inclusive(price_atr, cfg) == Abs(price_atr) >= cfg.absorption_price_atr

is_price_move(price_atr, cfg) == Abs(price_atr) > cfg.absorption_price_atr

\* Variant: ">=" for ">" on the range.
is_stop_hunt_inclusive(price_atr, price_range_atr, cfg) ==
    /\ price_range_atr >= cfg.stop_hunt_range_atr
    /\ Abs(price_atr) < cfg.stop_hunt_close_atr

is_stop_hunt(price_atr, price_range_atr, cfg) ==
    /\ price_range_atr > cfg.stop_hunt_range_atr
    /\ Abs(price_atr) < cfg.stop_hunt_close_atr

\* Variant: "<=" for "<".
is_close_near_open_inclusive(price_atr, cfg) == Abs(price_atr) <= cfg.stop_hunt_close_atr

is_close_near_open(price_atr, cfg) == Abs(price_atr) < cfg.stop_hunt_close_atr

\* Variant: the final return left out, the function falling off its end.
noise_result_missing == [regime |-> "None", reason |-> "None"]

\* Line 458: the default when no rule matched.
noise_result == [regime |-> REGIME_NOISE, reason |-> "No clear market regime detected"]

\* The direction word of the breakout and continuation reasons.
\* Variant: the word of the opposite side.
ReasonDirection_inverted(cvd_ratio) == IF cvd_ratio > 0 THEN "Bearish" ELSE "Bullish"

ReasonDirection(cvd_ratio) == IF cvd_ratio > 0 THEN "Bullish" ELSE "Bearish"

classify_regime(cvd_ratio, taker_log_ratio, oi_delta, price_atr, rsi, price_range_atr, cfg) ==
    IF is_stop_hunt(price_atr, price_range_atr, cfg)
    THEN [regime |-> REGIME_STOP_HUNT, reason |-> "Price spiked but closed near open"]
    ELSE IF /\ is_cvd_strong(cvd_ratio, cfg)
            /\ is_price_breakout(price_atr, cfg)
            /\ cvd_price_aligned(cvd_ratio, price_atr)
            /\ is_solid_move(price_atr, price_range_atr)
            /\ (is_taker_extreme(taker_log_ratio, cfg) \/ is_oi_increase(oi_delta, cfg))
    THEN [regime |-> REGIME_BREAKOUT,
          reason |-> ReasonDirection(cvd_ratio) \o " breakout with aligned signals"]
    ELSE IF /\ is_cvd_strong(cvd_ratio, cfg)
            /\ is_oi_decrease(oi_delta, cfg)
            /\ rsi_extreme(rsi, cfg)
    THEN [regime |-> REGIME_EXHAUSTION, reason |-> "Trend exhaustion at RSI extreme"]
    ELSE IF /\ is_cvd_strong(cvd_ratio, cfg)
            /\ is_oi_decrease(oi_delta, cfg)
            /\ is_close_near_open(price_atr, cfg)
    THEN [regime |-> REGIME_TRAP,
          reason |-> "Strong flow but positions closing with reversal (trap)"]
    ELSE IF is_cvd_strong(cvd_ratio, cfg) /\ ~is_price_move(price_atr, cfg)
    THEN [regime |-> REGIME_ABSORPTION,
          reason |-> "Strong flow absorbed without price movement"]
    ELSE IF /\ is_cvd_weak(cvd_ratio, cfg)
            /\ is_price_move(price_atr, cfg)
            /\ cvd_price_aligned(cvd_ratio, price_atr)
    THEN [regime |-> REGIME_CONTINUATION,
          reason |-> ReasonDirection(cvd_ratio) \o " trend continuation"]
    ELSE noise_result

----------------------------------------------------------------------------
(* Direction and confidence *)

calculate_direction(cvd_ratio, taker_log_ratio, price_atr) ==
    LET vote(x) == IF x > 0 THEN 1 ELSE IF x < 0 THEN -1 ELSE 0
        votes == vote(cvd_ratio) + vote(taker_log_ratio) + vote(price_atr)
    IN  IF votes >= 2 THEN DIRECTION_BULLISH
        ELSE IF votes <= -2 THEN DIRECTION_BEARISH
        ELSE DIRECTION_NEUTRAL

\* Variant: the OI term not capped and the score not clamped.
calculate_confidence_unclamped(cvd_ratio, taker_log_ratio, oi_delta, price_atr) ==
    100 * Min(Abs(cvd_ratio), 300)
    + 20 * Min(Abs(taker_log_ratio), 1000)
    + 4 * Abs(oi_delta)
    + 15 * Min(Abs(price_atr), 2000)

\* Base confidence in units of 0.00001 (100000 is 1.0):
\*   0.3 * min(|cvd|, 0.3) / 0.3  = 100 * min(|cvd|, 300)
\*   0.2 * min(|taker|, 1.0) / 1.0 = 20 * min(|taker|, 1000)
\*   0.2 * min(|oi|, 5.0) / 5.0    =  4 * min(|oi|, 5000)
\*   0.3 * min(|price|, 2.0) / 2.0 = 15 * min(|price|, 2000)
calculate_confidence(cvd_ratio, taker_log_ratio, oi_delta, price_atr) ==
    LET score == 100 * Min(Abs(cvd_ratio), 300)
                 + 20 * Min(Abs(taker_log_ratio), 1000)
                 + 4 * Min(Abs(oi_delta), 5000)
                 + 15 * Min(Abs(price_atr), 2000)
    IN  Max(0, Min(100000, score))

\* Variant: noise loses 0.10.
calculate_pattern_penalty_noise_10(regime, cvd_ratio, price_atr, oi_delta, rsi, price_range_atr) ==
    LET cvd_weak == Abs(cvd_ratio) < 30
        price_strong == Abs(price_atr) > 500
        rsi_ext == rsi > 70000 \/ rsi < 30000
        range_large == price_range_atr > 1000
        body_large == IF price_range_atr > 0 THEN 2 * Abs(price_atr) > price_range_atr
                      ELSE TRUE
        aligned == (cvd_ratio > 0 /\ price_atr > 0) \/ (cvd_ratio < 0 /\ price_atr < 0)
        b(cond, amount) == IF cond THEN amount ELSE 0
        score ==
            CASE regime = REGIME_BREAKOUT -> 100 - b(~aligned, 12) - b(cvd_weak, 8)
              [] regime = REGIME_ABSORPTION -> 100 - b(price_strong, 10) - b(cvd_weak, 8)
              [] regime = REGIME_CONTINUATION -> 100 - b(~aligned, 15)
              [] regime = REGIME_EXHAUSTION -> 100 - b(~rsi_ext, 10)
              [] regime = REGIME_TRAP -> 100 - b(aligned, 12)
              [] regime = REGIME_STOP_HUNT -> 100 - b(~range_large, 10) - b(body_large, 8)
              [] regime = REGIME_NOISE -> 100 - 10
              [] OTHER -> 100
    IN  Max(70, score)

\* Pattern penalty in hundredths (100 is 1.0).
calculate_pattern_penalty(regime, cvd_ratio, price_atr, oi_delta, rsi, price_range_atr) ==
    LET cvd_weak == Abs(cvd_ratio) < 30
        price_strong == Abs(price_atr) > 500
        rsi_ext == rsi > 70000 \/ rsi < 30000
        range_large == price_range_atr > 1000
        \* body_ratio > 0.5
        body_large == IF price_range_atr > 0 THEN 2 * Abs(price_atr) > price_range_atr
                      ELSE TRUE
        aligned == (cvd_ratio > 0 /\ price_atr > 0) \/ (cvd_ratio < 0 /\ price_atr < 0)
        b(cond, amount) == IF cond THEN amount ELSE 0
        score ==
            CASE regime = REGIME_BREAKOUT -> 100 - b(~aligned, 12) - b(cvd_weak, 8)
              [] regime = REGIME_ABSORPTION -> 100 - b(price_strong, 10) - b(cvd_weak, 8)
              [] regime = REGIME_CONTINUATION -> 100 - b(~aligned, 15)
              [] regime = REGIME_EXHAUSTION -> 100 - b(~rsi_ext, 10)
              [] regime = REGIME_TRAP -> 100 - b(aligned, 12)
              [] regime = REGIME_STOP_HUNT -> 100 - b(~range_large, 10) - b(body_large, 8)
              [] regime = REGIME_NOISE -> 100 - 15
              [] OTHER -> 100
    IN  Max(70, score)

\* Variant: the noise penalty comes before the count of directions.
calculate_direction_penalty_noise_first(regime, cvd_ratio, price_atr, taker_log_ratio) ==
    LET cvd_dir == IF cvd_ratio > 20 THEN 1 ELSE IF cvd_ratio < -20 THEN -1 ELSE 0
        price_dir == IF price_atr > 100 THEN 1 ELSE IF price_atr < -100 THEN -1 ELSE 0
        taker_dir == IF taker_log_ratio > 150 THEN 1
                     ELSE IF taker_log_ratio < -150 THEN -1 ELSE 0
        all3 == <<cvd_dir, price_dir, taker_dir>>
        dirs == SelectSeq(all3, LAMBDA d : d # 0)
        all_aligned == \A i \in 1..Len(dirs) : dirs[i] = dirs[1]
        has_contradiction == (\E i \in 1..Len(dirs) : dirs[i] = 1)
                             /\ (\E i \in 1..Len(dirs) : dirs[i] = -1)
    IN  IF regime = REGIME_NOISE THEN 90
        ELSE IF Len(dirs) < 2 THEN 100
        ELSE IF regime \in {REGIME_BREAKOUT, REGIME_CONTINUATION}
             THEN (IF has_contradiction THEN 85 ELSE 100)
        ELSE IF regime \in {REGIME_ABSORPTION, REGIME_TRAP}
             THEN (IF all_aligned THEN 88 ELSE 100)
        ELSE 100

\* Direction penalty in hundredths (100 is 1.0).
calculate_direction_penalty(regime, cvd_ratio, price_atr, taker_log_ratio) ==
    LET cvd_dir == IF cvd_ratio > 20 THEN 1 ELSE IF cvd_ratio < -20 THEN -1 ELSE 0
        price_dir == IF price_atr > 100 THEN 1 ELSE IF price_atr < -100 THEN -1 ELSE 0
        taker_dir == IF taker_log_ratio > 150 THEN 1
                     ELSE IF taker_log_ratio < -150 THEN -1 ELSE 0
        all3 == <<cvd_dir, price_dir, taker_dir>>
        dirs == SelectSeq(all3, LAMBDA d : d # 0)
        all_aligned == \A i \in 1..Len(dirs) : dirs[i] = dirs[1]
        has_contradiction == (\E i \in 1..Len(dirs) : dirs[i] = 1)
                             /\ (\E i \in 1..Len(dirs) : dirs[i] = -1)
    IN  IF Len(dirs) < 2 THEN 100
        ELSE IF regime \in {REGIME_BREAKOUT, REGIME_CONTINUATION}
             THEN (IF has_contradiction THEN 85 ELSE 100)
        ELSE IF regime \in {REGIME_ABSORPTION, REGIME_TRAP}
             THEN (IF all_aligned THEN 88 ELSE 100)
        ELSE IF regime = REGIME_NOISE THEN 90
        ELSE 100

\* round(base_confidence * pattern_penalty * direction_penalty, 3), in milli.
final_confidence(base_confidence, pattern_penalty, direction_penalty) ==
    DivRound(base_confidence * pattern_penalty * direction_penalty, 1000000)

----------------------------------------------------------------------------
(* Price metrics *)

\* The 14-period lookback needs 15 bars.
MinKlines == 15

\* Variant: the short-history default of rsi is 0.
calculate_price_metrics_rsi_zero(klines, atr_values, rsi_values) ==
    IF Len(klines) < MinKlines
    THEN [price_atr |-> 0, price_range_atr |-> 0, rsi |-> 0]
    ELSE LET atr == IF atr_values # <<>> THEN atr_values[Len(atr_values)] ELSE 0
             rsi == IF rsi_values # <<>> THEN rsi_values[Len(rsi_values)] ELSE 50000
             latest == klines[Len(klines)]
         IN  IF atr > 0 /\ Len(klines) >= 1
             THEN [price_atr |-> DivRound((latest.close - latest.open) * 1000, atr),
                   price_range_atr |-> DivRound((latest.high - latest.low) * 1000, atr),
                   rsi |-> rsi]
             ELSE [price_atr |-> 0, price_range_atr |-> 0, rsi |-> rsi]

\* Variant: the first value of each series for the latest one.
calculate_price_metrics_first(klines, atr_values, rsi_values) ==
    IF Len(klines) < MinKlines
    THEN [price_atr |-> 0, price_range_atr |-> 0, rsi |-> 50000]
    ELSE LET atr == IF atr_values # <<>> THEN atr_values[1] ELSE 0
             rsi == IF rsi_values # <<>> THEN rsi_values[1] ELSE 50000
             latest == klines[Len(klines)]
         IN  IF atr > 0 /\ Len(klines) >= 1
             THEN [price_atr |-> DivRound((latest.close - latest.open) * 1000, atr),
                   price_range_atr |-> DivRound((latest.high - latest.low) * 1000, atr),
                   rsi |-> rsi]
             ELSE [price_atr |-> 0, price_range_atr |-> 0, rsi |-> rsi]

\* calculate_price_metrics once calculate_indicators has answered with the
\* series atr_values (ATR14) and rsi_values (RSI14); below MinKlines bars the
\* indicator library is not called and the series are not read.
calculate_price_metrics(klines, atr_values, rsi_values) ==
    IF Len(klines) < MinKlines
    THEN [price_atr |-> 0, price_range_atr |-> 0, rsi |-> 50000]
    ELSE LET atr == IF atr_values # <<>> THEN atr_values[Len(atr_values)] ELSE 0
             rsi == IF rsi_values # <<>> THEN rsi_values[Len(rsi_values)] ELSE 50000
             latest == klines[Len(klines)]
         IN  IF atr > 0 /\ Len(klines) >= 1
             THEN [price_atr |-> DivRound((latest.close - latest.open) * 1000, atr),
                   price_range_atr |-> DivRound((latest.high - latest.low) * 1000, atr),
                   rsi |-> rsi]
             ELSE [price_atr |-> 0, price_range_atr |-> 0, rsi |-> rsi]

----------------------------------------------------------------------------
(* Values the collaborators may hand to get_market_regime *)

\* An entry of flow_data: None, an empty dict, or a dict (a missing key of
\* which .get(key, 0) reads as 0).
FlowNone == [kind |-> "None", has_current |-> FALSE, current |-> 0, buy |-> 0, sell |-> 0]
FlowEmpty == [kind |-> "empty", has_current |-> FALSE, current |-> 0, buy |-> 0, sell |-> 0]
FlowOther == [kind |-> "dict", has_current |-> FALSE, current |-> 0, buy |-> 0, sell |-> 0]
FlowCurrent(c) ==
    [kind |-> "dict", has_current |-> TRUE, current |-> c, buy |-> 0, sell |-> 0]
FlowTaker(b, s) ==
    [kind |-> "dict", has_current |-> FALSE, current |-> 0, buy |-> b, sell |-> s]

\* Python truthiness of an entry: None and {} are falsy.
Truthy(d) == d.kind = "dict"

CvdCurrents == {-4 * MaxMagnitude, -16, 4, 16, 4 * MaxMagnitude}
TakerNotionals == {0, 20, 80}
OiCurrents == {-1000 * MaxMagnitude, -1500, 1500, 1000 * MaxMagnitude}

CvdDataValues == {FlowNone, FlowEmpty, FlowOther} \cup {FlowCurrent(c) : c \in CvdCurrents}
TakerDataValues ==
    {FlowNone, FlowEmpty} \cup {FlowTaker(b, s) : b \in TakerNotionals, s \in TakerNotionals}
OiDeltaDataValues == {FlowNone} \cup {FlowCurrent(c) : c \in OiCurrents}

\* Candles (timestamp and volume play no part in the price metrics).
Candle(o, h, l, c) == [open |-> o, high |-> h, low |-> l, close |-> c]
FillerCandle == Candle(100, 100, 100, 100)
LatestCandles ==
    {Candle(100, 110, 100, 108),    \* solid rise
     Candle(108, 110, 100, 100),    \* solid fall
     Candle(100, 120, 95, 101),     \* spike, close near open
     Candle(100, 104, 100, 103)}    \* small rise

KlineLens == {0} \cup (14..MaxKlines)

\* The candle sequences fetch_kline_data may return.
KlineSeqs ==
    {[i \in 1..n |-> FillerCandle] : n \in {k \in KlineLens : k < MinKlines}}
    \cup {[i \in 1..n |-> IF i = n THEN c ELSE FillerCandle] :
            n \in {k \in KlineLens : k >= MinKlines}, c \in LatestCandles}

\* Series calculate_indicators may return (price units; rsi in milli).
AtrSeries == {<<>>, <<0>>, <<10, 2>>, <<2, 10>>}
RsiSeries == {<<>>, <<80000, 20000>>, <<20000, 80000>>}

ConfigIds == {{}, {0}, {3}, {9}}
Timeframes == {"5m", "7m"}

NoFv ==
    [cvd_ratio |-> 0, taker_log_ratio |-> 0, oi_delta |-> 0,
     price_atr |-> 0, rsi |-> 0, price_range_atr |-> 0]
NoClassified == [regime |-> "", reason |-> ""]
NoIndicators == [ATR14 |-> <<>>, RSI14 |-> <<>>]
NoOhlcArgs == [symbol |-> "", period |-> "", limit |-> 0, current_time_ms |-> 0]
NoBuckets == [b \in {} |-> <<>>]
NoPenalties == [pattern |-> 0, direction |-> 0]
NoFeed == [raises |-> FALSE, candles |-> <<>>]
NoKlineArgs ==
    [symbol |-> "", period |-> "", limit |-> 0, current_time_ms |-> {},
     use_realtime |-> FALSE]
NoResult ==
    [regime |-> "", direction |-> "", confidence |-> 0, reason |-> "",
     indicators |-> {}, debug |-> {}]

----------------------------------------------------------------------------
(* get_market_regime, step by step *)

\* The three early returns.
TerminalResult(reason, debug) ==
    [regime |-> REGIME_NOISE, direction |-> DIRECTION_NEUTRAL, confidence |-> 0,
     reason |-> reason, indicators |-> {}, debug |-> debug]

\* get_default_config / the query by id: .first() of the matching rows.
LookupConfig(rows, cid) ==
    LET truthy == cid # {} /\ cid # {0}
        match == IF truthy THEN {r \in rows : {r.id} = cid}
                 ELSE {r \in rows : r.is_default}
    IN  IF match = {} THEN {NoRow} ELSE match

\* A caller invokes get_market_regime(db, symbol, timeframe, config_id, ...).
Call ==
    /\ pc = "call"
    /\ \E cid \in ConfigIds, tf \in Timeframes, rt \in BOOLEAN :
         /\ config_id' = cid
         /\ timeframe' = tf
         /\ use_realtime' = rt
    /\ pc' = "get_config"
    /\ UNCHANGED bucketer_vars
    /\ UNCHANGED candle_vars
    /\ UNCHANGED <<penalties, regimes_seen>>
    /\ UNCHANGED <<indicators, db_configs, config, cvd_data, taker_data, oi_delta_data,
                   kline_data, fv, classified, result, trace>>

\* Lines 574-590: read the config; without one, return.
GetConfig ==
    /\ pc = "get_config"
    /\ trace' = Append(trace, "config_read")
    /\ \E c \in LookupConfig(db_configs, config_id) :
         /\ config' = c
         /\ IF c = NoRow
            THEN /\ result' = TerminalResult("No regime config found", {})
                 /\ pc' = "done"
            ELSE /\ result' = result
                 /\ pc' = "validate_timeframe"
    /\ UNCHANGED bucketer_vars
    /\ UNCHANGED candle_vars
    /\ UNCHANGED <<penalties, regimes_seen>>
    /\ UNCHANGED <<indicators, db_configs, config_id, timeframe, use_realtime, cvd_data,
                   taker_data, oi_delta_data, kline_data, fv, classified>>

\* Variant: the timeframe is examined but the early return is left out.
ValidateTimeframe_no_return ==
    /\ pc = "validate_timeframe"
    /\ trace' = Append(trace, "timeframe_check")
    /\ pc' = "fetch_flow"
    /\ UNCHANGED bucketer_vars
    /\ UNCHANGED candle_vars
    /\ UNCHANGED <<penalties, regimes_seen>>
    /\ UNCHANGED <<indicators, db_configs, config_id, timeframe, use_realtime, config, cvd_data,
                   taker_data, oi_delta_data, kline_data, fv, classified, result>>

\* Lines 592-601: validate the timeframe; an unsupported one returns.
ValidateTimeframe ==
    /\ pc = "validate_timeframe"
    /\ trace' = Append(trace, "timeframe_check")
    /\ IF timeframe \notin TIMEFRAME_MS
       THEN /\ result' = TerminalResult("Unsupported timeframe: " \o timeframe, {})
            /\ pc' = "done"
       ELSE /\ result' = result
            /\ pc' = "fetch_flow"
    /\ UNCHANGED bucketer_vars
    /\ UNCHANGED candle_vars
    /\ UNCHANGED <<penalties, regimes_seen>>
    /\ UNCHANGED <<indicators, db_configs, config_id, timeframe, use_realtime, config, cvd_data,
                   taker_data, oi_delta_data, kline_data, fv, classified>>

\* Lines 627-643: the flow metrics.
cvd_ratio_of(cvd, taker) ==
    LET cvd_current == IF cvd.has_current THEN cvd.current ELSE 0
        total_notional == taker.buy + taker.sell
    IN  IF total_notional > 0 THEN DivRound(cvd_current * 1000, total_notional) ELSE 0

\* Variant: the ratio sell / buy.
taker_log_ratio_of_inverted(taker) ==
    IF taker.buy > 0 /\ taker.sell > 0
    THEN Ln(DivRound(taker.sell * 1000, taker.buy))
    ELSE 0

taker_log_ratio_of(taker) ==
    IF taker.buy > 0 /\ taker.sell > 0
    THEN Ln(DivRound(taker.buy * 1000, taker.sell))
    ELSE 0

oi_delta_of(oi) == IF Truthy(oi) /\ oi.has_current THEN oi.current ELSE 0

\* Variant: "and" for "or".
insufficient_flow_both(cvd, taker) == ~Truthy(cvd) /\ ~Truthy(taker)

\* Line 617: "if not cvd_data or not taker_data".
insufficient_flow(cvd, taker) == ~Truthy(cvd) \/ ~Truthy(taker)

\* Lines 607-643: read the flow indicators; without CVD or taker data, return;
\* otherwise derive cvd_ratio, taker_log_ratio and oi_delta.
FetchFlow ==
    /\ pc = "fetch_flow"
    /\ trace' = Append(trace, "flow_read")
    /\ \E cvd \in CvdDataValues, taker \in TakerDataValues, oi \in OiDeltaDataValues :
         /\ cvd_data' = cvd
         /\ taker_data' = taker
         /\ oi_delta_data' = oi
         /\ IF insufficient_flow(cvd, taker)
            THEN /\ result' = TerminalResult("Insufficient market flow data",
                                  {<<"cvd_data", cvd>>, <<"taker_data", taker>>})
                 /\ fv' = fv
                 /\ pc' = "done"
            ELSE /\ result' = result
                 /\ fv' = [fv EXCEPT !.cvd_ratio = cvd_ratio_of(cvd, taker),
                                     !.taker_log_ratio = taker_log_ratio_of(taker),
                                     !.oi_delta = oi_delta_of(oi)]
                 /\ pc' = "fetch_klines"
    /\ UNCHANGED bucketer_vars
    /\ UNCHANGED candle_vars
    /\ UNCHANGED <<penalties, regimes_seen>>
    /\ UNCHANGED <<indicators, db_configs, config_id, timeframe, use_realtime, config,
                   kline_data, classified>>

\* Lines 645-649: fetch_kline_data(limit=50, ...) answers with a candle sequence.
FetchKlines ==
    /\ pc = "fetch_klines"
    /\ trace' = Append(trace, "candle_read")
    /\ \E ks \in KlineSeqs : kline_data' = ks
    /\ pc' = "price_metrics"
    /\ UNCHANGED bucketer_vars
    /\ UNCHANGED candle_vars
    /\ UNCHANGED <<penalties, regimes_seen>>
    /\ UNCHANGED <<indicators, db_configs, config_id, timeframe, use_realtime, config, cvd_data,
                   taker_data, oi_delta_data, fv, classified, result>>

\* Lines 650-653: calculate_price_metrics(kline_data).
PriceMetrics ==
    /\ pc = "price_metrics"
    /\ \E atr_values \in AtrSeries, rsi_values \in RsiSeries :
         LET m == calculate_price_metrics(kline_data, atr_values, rsi_values)
         IN  /\ Len(kline_data) < MinKlines => atr_values = <<>> /\ rsi_values = <<>>
             /\ fv' = [fv EXCEPT !.price_atr = m.price_atr,
                                 !.price_range_atr = m.price_range_atr,
                                 !.rsi = m.rsi]
             /\ indicators' = IF Len(kline_data) < MinKlines
                              THEN indicators
                              ELSE [ATR14 |-> atr_values, RSI14 |-> rsi_values]
    /\ trace' = IF Len(kline_data) < MinKlines
                THEN Append(trace, "price_metrics")
                ELSE trace \o <<"calculate_indicators", "price_metrics">>
    /\ pc' = "classify"
    /\ UNCHANGED bucketer_vars
    /\ UNCHANGED candle_vars
    /\ UNCHANGED <<penalties, regimes_seen>>
    /\ UNCHANGED <<db_configs, config_id, timeframe, use_realtime, config, cvd_data,
                   taker_data, oi_delta_data, kline_data, classified, result>>

\* Lines 655-658: classify_regime on the feature vector.
Classify ==
    /\ pc = "classify"
    /\ classified' = classify_regime(fv.cvd_ratio, fv.taker_log_ratio, fv.oi_delta,
                                     fv.price_atr, fv.rsi, fv.price_range_atr, config)
    /\ trace' = Append(trace, "classify")
    /\ pc' = "score"
    /\ UNCHANGED bucketer_vars
    /\ UNCHANGED candle_vars
    /\ regimes_seen' = regimes_seen \cup {classified'.regime}
    /\ UNCHANGED penalties
    /\ UNCHANGED <<indicators, db_configs, config_id, timeframe, use_realtime, config, cvd_data,
                   taker_data, oi_delta_data, kline_data, fv, result>>

\* Lines 660-695: direction, confidence, penalties and the result dict.
CompleteResult ==
    LET direction == calculate_direction(fv.cvd_ratio, fv.taker_log_ratio, fv.price_atr)
        base_confidence ==
            calculate_confidence(fv.cvd_ratio, fv.taker_log_ratio, fv.oi_delta, fv.price_atr)
        pattern_penalty ==
            calculate_pattern_penalty(classified.regime, fv.cvd_ratio, fv.price_atr,
                                      fv.oi_delta, fv.rsi, fv.price_range_atr)
        direction_penalty ==
            calculate_direction_penalty(classified.regime, fv.cvd_ratio, fv.price_atr,
                                        fv.taker_log_ratio)
    IN  [regime |-> classified.regime,
         direction |-> direction,
         confidence |-> final_confidence(base_confidence, pattern_penalty, direction_penalty),
         reason |-> classified.reason,
         indicators |->
             {<<"cvd_ratio", fv.cvd_ratio>>, <<"oi_delta", fv.oi_delta>>,
              <<"taker_ratio", Exp(fv.taker_log_ratio)>>,
              <<"price_atr", fv.price_atr>>, <<"rsi", Round1(fv.rsi)>>},
         debug |->
             {<<"cvd_ratio", fv.cvd_ratio>>, <<"taker_log_ratio", fv.taker_log_ratio>>,
              <<"oi_delta_pct", fv.oi_delta>>,
              <<"taker_buy", taker_data.buy>>, <<"taker_sell", taker_data.sell>>,
              <<"total_notional", taker_data.buy + taker_data.sell>>,
              <<"timeframe", timeframe>>}]

Score ==
    /\ pc = "score"
    /\ result' = CompleteResult
    /\ trace' = Append(trace, "score")
    /\ pc' = "done"
    /\ UNCHANGED bucketer_vars
    /\ UNCHANGED candle_vars
    /\ penalties' =
           [pattern |-> calculate_pattern_penalty(classified.regime, fv.cvd_ratio,
                            fv.price_atr, fv.oi_delta, fv.rsi, fv.price_range_atr),
            direction |-> calculate_direction_penalty(classified.regime, fv.cvd_ratio,
                              fv.price_atr, fv.taker_log_ratio)]
    /\ UNCHANGED regimes_seen
    /\ UNCHANGED <<indicators, db_configs, config_id, timeframe, use_realtime, config, cvd_data,
                   taker_data, oi_delta_data, kline_data, fv, classified>>

\* A collaborator call (the config query, the flow read, the candle read, the
\* indicator library) raises: get_market_regime has no handler, so the call
\* ends with the exception and returns no result.
CollaboratorRaises ==
    /\ \/ pc = "get_config" /\ trace' = Append(trace, "config_read")
       \/ pc = "fetch_flow" /\ trace' = Append(trace, "flow_read")
       \/ pc = "fetch_klines" /\ trace' = Append(trace, "candle_read")
       \/ /\ pc = "price_metrics"
          /\ Len(kline_data) >= MinKlines
          /\ trace' = Append(trace, "calculate_indicators")
    /\ pc' = "raised"
    /\ UNCHANGED bucketer_vars
    /\ UNCHANGED candle_vars
    /\ UNCHANGED <<penalties, regimes_seen>>
    /\ UNCHANGED <<indicators, db_configs, config_id, timeframe, use_realtime, config, cvd_data,
                   taker_data, oi_delta_data, kline_data, fv, classified, result>>

----------------------------------------------------------------------------
(* Specification of the orchestrator *)

DbStates == {{}, ConfigRows}

Init ==
    /\ pc = "call"
    /\ db_configs \in DbStates
    /\ config_id = {}
    /\ timeframe = "5m"
    /\ use_realtime = FALSE
    /\ config = NoRow
    /\ cvd_data = FlowNone
    /\ taker_data = FlowNone
    /\ oi_delta_data = FlowNone
    /\ kline_data = <<>>
    /\ fv = NoFv
    /\ classified = NoClassified
    /\ result = NoResult
    /\ trace = <<>>
    /\ indicators = NoIndicators
    /\ flow_rows = {}
    /\ ohlc_args = NoOhlcArgs
    /\ buckets = NoBuckets
    /\ ohlc_result = <<>>
    /\ penalties = NoPenalties
    /\ regimes_seen = {}
    /\ kline_rows = {}
    /\ feed = NoFeed
    /\ kline_args = NoKlineArgs
    /\ kline_result = <<>>

Next ==
    \/ Call
    \/ GetConfig
    \/ ValidateTimeframe
    \/ FetchFlow
    \/ FetchKlines
    \/ PriceMetrics
    \/ Classify
    \/ Score
    \/ CollaboratorRaises

Spec == Init /\ [][Next]_vars

----------------------------------------------------------------------------
(* Specification of the classifier and the scorer as pure functions: the     *)
(* feature vector and the config are arbitrary, then lines 655-695 run.     *)

CvdRatios == {-200, -100, 0, 50, 100, 150, 200}
TakerLogRatios == {-4000, -3500, 0, Ln(33000), 4000}
OiDeltas == {-3000, -2000, -1000, 1000, 2000, 3000}
PriceAtrs == {-600, -400, -100, 0, 100, 200, 300, 400, 500, 600}
Rsis == {20000, 30000, 50000, 80000}
PriceRangeAtrs == {-500, 0, 1000, 1500, 2000}

FeatureVectors ==
    [cvd_ratio : CvdRatios, taker_log_ratio : TakerLogRatios, oi_delta : OiDeltas,
     price_atr : PriceAtrs, rsi : Rsis, price_range_atr : PriceRangeAtrs]

InitClassify ==
    /\ pc = "classify"
    /\ db_configs = ConfigRows
    /\ config_id = {}
    /\ timeframe = "5m"
    /\ use_realtime = FALSE
    /\ config \in ConfigRows
    /\ cvd_data = FlowNone
    /\ taker_data = FlowNone
    /\ oi_delta_data = FlowNone
    /\ kline_data = <<>>
    /\ fv \in FeatureVectors
    /\ classified = NoClassified
    /\ result = NoResult
    /\ trace = <<>>
    /\ indicators = NoIndicators
    /\ flow_rows = {}
    /\ ohlc_args = NoOhlcArgs
    /\ buckets = NoBuckets
    /\ ohlc_result = <<>>
    /\ penalties = NoPenalties
    /\ regimes_seen = {}
    /\ kline_rows = {}
    /\ feed = NoFeed
    /\ kline_args = NoKlineArgs
    /\ kline_result = <<>>

NextClassify ==
    \/ Classify
    \/ Score

SpecClassify == InitClassify /\ [][NextClassify]_vars

----------------------------------------------------------------------------
(* Specification of calculate_price_metrics as a function of the candles:   *)
(* the candle sequence is arbitrary, then lines 650-653 run.                *)

AllKlineSeqs ==
    {[i \in 1..n |-> IF i = n THEN c ELSE FillerCandle] :
        n \in 0..MaxKlines, c \in LatestCandles}

InitPriceMetrics ==
    /\ pc = "price_metrics"
    /\ db_configs = ConfigRows
    /\ config_id = {}
    /\ timeframe = "5m"
    /\ use_realtime = FALSE
    /\ config = DefaultRow
    /\ cvd_data = FlowNone
    /\ taker_data = FlowNone
    /\ oi_delta_data = FlowNone
    /\ kline_data \in AllKlineSeqs
    /\ fv = NoFv
    /\ classified = NoClassified
    /\ result = NoResult
    /\ trace = <<>>
    /\ indicators = NoIndicators
    /\ flow_rows = {}
    /\ ohlc_args = NoOhlcArgs
    /\ buckets = NoBuckets
    /\ ohlc_result = <<>>
    /\ penalties = NoPenalties
    /\ regimes_seen = {}
    /\ kline_rows = {}
    /\ feed = NoFeed
    /\ kline_args = NoKlineArgs
    /\ kline_result = <<>>

NextPriceMetrics ==
    \/ PriceMetrics
    \/ CollaboratorRaises

SpecPriceMetrics == InitPriceMetrics /\ [][NextPriceMetrics]_vars

----------------------------------------------------------------------------
(* Properties of classify_regime (SpecClassify)                             *)

\* classify_regime has returned for the feature vector fv and the config.
Returned == pc \in {"score", "done"}

\* The seven regimes with the reasons they come with.
RegimeReasonPairs ==
    {[regime |-> "stop_hunt", reason |-> "Price spiked but closed near open"],
     [regime |-> "breakout", reason |-> "Bullish breakout with aligned signals"],
     [regime |-> "breakout", reason |-> "Bearish breakout with aligned signals"],
     [regime |-> "exhaustion", reason |-> "Trend exhaustion at RSI extreme"],
     [regime |-> "trap", reason |-> "Strong flow but positions closing with reversal (trap)"],
     [regime |-> "absorption", reason |-> "Strong flow absorbed without price movement"],
     [regime |-> "continuation", reason |-> "Bullish trend continuation"],
     [regime |-> "continuation", reason |-> "Bearish trend continuation"],
     [regime |-> "noise", reason |-> "No clear market regime detected"]}

\* The rules of the priority chain, each taken alone, on the feature vector
\* and the config of the state.
CvdStrong == 10 * Abs(fv.cvd_ratio) > config.breakout_cvd_z

SameStrictSign ==
    \/ fv.cvd_ratio > 0 /\ fv.price_atr > 0
    \/ fv.cvd_ratio < 0 /\ fv.price_atr < 0

TakerBeyondLogThresholds ==
    LET high == IF config.breakout_taker_high > 0
                THEN Ln(config.breakout_taker_high) ELSE 3500
        low == IF config.breakout_taker_low > 0
               THEN Ln(config.breakout_taker_low) ELSE -3500
    IN  fv.taker_log_ratio > high \/ fv.taker_log_ratio < low

StopHuntRule ==
    /\ fv.price_range_atr > config.stop_hunt_range_atr
    /\ Abs(fv.price_atr) < config.stop_hunt_close_atr

BreakoutRule ==
    /\ CvdStrong
    /\ Abs(fv.price_atr) > config.breakout_price_atr + 200
    /\ SameStrictSign
    /\ \/ fv.price_range_atr <= 0
       \/ 10 * Abs(fv.price_atr) > 4 * fv.price_range_atr
    /\ (TakerBeyondLogThresholds \/ fv.oi_delta > config.breakout_oi_z)

ExhaustionRule ==
    /\ CvdStrong
    /\ fv.oi_delta < config.trap_oi_z
    /\ (fv.rsi > config.exhaustion_rsi_high \/ fv.rsi < config.exhaustion_rsi_low)

TrapRule ==
    /\ CvdStrong
    /\ fv.oi_delta < config.trap_oi_z
    /\ Abs(fv.price_atr) < config.stop_hunt_close_atr

AbsorptionRule ==
    /\ CvdStrong
    /\ Abs(fv.price_atr) <= config.absorption_price_atr

ContinuationRule ==
    /\ 30 * Abs(fv.cvd_ratio) > config.breakout_cvd_z
    /\ Abs(fv.price_atr) > config.absorption_price_atr
    /\ SameStrictSign

\* C1: classify_regime is total: for every feature vector and config it
\* returns one (regime, reason) pair, the regime one of the seven regimes and
\* the reason the fixed reason of that regime.
C1_ClassifyTotal == Returned => classified \in RegimeReasonPairs

\* C1 witness: a call that no rule matched has returned the default, noise.
C1_Witness ==
    /\ Returned
    /\ classified.regime = REGIME_NOISE
    /\ ~StopHuntRule /\ ~BreakoutRule /\ ~ExhaustionRule /\ ~TrapRule
    /\ ~AbsorptionRule /\ ~ContinuationRule

\* C2: the result is stop_hunt exactly when price_range_atr exceeds
\* stop_hunt_range_atr and |price_atr| is below stop_hunt_close_atr, whatever
\* cvd_ratio, taker_log_ratio, oi_delta and rsi are.
C2_StopHuntIff == Returned => (classified.regime = REGIME_STOP_HUNT <=> StopHuntRule)

\* C2 witness: stop_hunt returned although the breakout, the exhaustion and
\* the trap rule match as well.
C2_Witness ==
    /\ Returned
    /\ classified.regime = REGIME_STOP_HUNT
    /\ BreakoutRule /\ ExhaustionRule /\ TrapRule

\* C3: the result is breakout exactly when the stop-hunt rule does not match
\* and the breakout rule does (strong CVD, price beyond breakout_price_atr +
\* 0.2, same strict sign, body fraction above 0.4 or range <= 0, taker beyond
\* its log thresholds or OI above breakout_oi_z).
C3_BreakoutIff ==
    Returned => (classified.regime = REGIME_BREAKOUT <=> (~StopHuntRule /\ BreakoutRule))

\* C3 witness: a breakout returned for a range that is not positive (the
\* body fraction counts as 1.0), on the OI increase alone.
C3_Witness ==
    /\ Returned
    /\ classified.regime = REGIME_BREAKOUT
    /\ fv.price_range_atr <= 0
    /\ ~TakerBeyondLogThresholds

\* C4: the result is exhaustion exactly when neither the stop-hunt nor the
\* breakout rule matches and CVD is strong, OI is below trap_oi_z and RSI is
\* outside [exhaustion_rsi_low, exhaustion_rsi_high].
C4_ExhaustionIff ==
    Returned =>
        (classified.regime = REGIME_EXHAUSTION
            <=> (~StopHuntRule /\ ~BreakoutRule /\ ExhaustionRule))

\* C4 witness: exhaustion returned although the trap and the absorption rule
\* match as well.
C4_Witness ==
    /\ Returned
    /\ classified.regime = REGIME_EXHAUSTION
    /\ TrapRule /\ AbsorptionRule

\* C5: the result is trap exactly when none of the stop-hunt, breakout and
\* exhaustion rules matches and CVD is strong, OI is below trap_oi_z and
\* |price_atr| is below stop_hunt_close_atr.
C5_TrapIff ==
    Returned =>
        (classified.regime = REGIME_TRAP
            <=> (~StopHuntRule /\ ~BreakoutRule /\ ~ExhaustionRule /\ TrapRule))

\* C5 witness: trap returned although the absorption rule matches as well.
C5_Witness ==
    /\ Returned
    /\ classified.regime = REGIME_TRAP
    /\ AbsorptionRule

\* C6: the result is absorption exactly when none of the stop-hunt, breakout,
\* exhaustion and trap rules matches and CVD is strong and |price_atr| is at
\* most absorption_price_atr.
C6_AbsorptionIff ==
    Returned =>
        (classified.regime = REGIME_ABSORPTION
            <=> (/\ ~StopHuntRule /\ ~BreakoutRule /\ ~ExhaustionRule /\ ~TrapRule
                 /\ AbsorptionRule))

\* C6 witness: absorption returned with |price_atr| equal to the threshold.
C6_Witness ==
    /\ Returned
    /\ classified.regime = REGIME_ABSORPTION
    /\ Abs(fv.price_atr) = config.absorption_price_atr

\* C7: when none of the five rules above matches, the result is continuation
\* if the continuation rule matches (CVD above cvd_strong / 3, price beyond
\* absorption_price_atr, same strict sign) and noise otherwise; noise is
\* returned only when no rule matches.
C7_ContinuationElseNoise ==
    LET none_above == /\ ~StopHuntRule /\ ~BreakoutRule /\ ~ExhaustionRule
                      /\ ~TrapRule /\ ~AbsorptionRule
    IN  Returned =>
          /\ (none_above /\ ContinuationRule) => classified.regime = REGIME_CONTINUATION
          /\ (none_above /\ ~ContinuationRule) => classified.regime = REGIME_NOISE
          /\ classified.regime = REGIME_NOISE => (none_above /\ ~ContinuationRule)
          /\ classified.regime = REGIME_CONTINUATION => none_above

\* C7 witness: continuation returned on a CVD that is weak but not strong.
C7_Witness ==
    /\ Returned
    /\ classified.regime = REGIME_CONTINUATION
    /\ ~CvdStrong

----------------------------------------------------------------------------
(* fetch_ohlc_from_flow: candles aggregated from the 15-second flow records *)

MaxLimit == 3

\* TIMEFRAME_MS.get(period): the interval in milliseconds, 0 for None.
TimeframeMs(period) ==
    CASE period = "1m" -> 60000
      [] period = "5m" -> 300000
      [] OTHER -> 0

\* symbol.upper()
Upper(symbol) ==
    CASE symbol = "btc" -> "BTC"
      [] symbol = "eth" -> "ETH"
      [] OTHER -> symbol

FlowRecord(sym, ts, vwap, high, low, buy, sell) ==
    [symbol |-> sym, timestamp |-> ts, vwap |-> vwap, high_price |-> high,
     low_price |-> low, taker_buy_notional |-> buy, taker_sell_notional |-> sell]

\* Rows MarketTradesAggregated may hold: one per 15-second slot and symbol.
\* A notional of 0 stands for a NULL or zero column; prices are positive.
RecordPool ==
    {FlowRecord("BTC", 1005000, 101, 103, 99, 5, 0),
     FlowRecord("BTC", 1020000, 102, 109, 100, 1, 2),
     FlowRecord("BTC", 1080000, 104, 105, 96, 3, 1),
     FlowRecord("BTC", 1140000, 107, 112, 103, 2, 2),
     FlowRecord("BTC", 1155000, 105, 106, 98, 0, 4),
     FlowRecord("BTC", 1185000, 106, 108, 104, 1, 1),
     FlowRecord("BTC", 1200000, 103, 111, 97, 2, 3),
     FlowRecord("BTC", 1215000, 108, 120, 90, 7, 7),
     FlowRecord("ETH", 1170000, 50, 60, 40, 9, 9)}

Periods == {"1m", "5m", "7m"}
Anchors == {1200000, 1207500}
OhlcArgs ==
    [symbol : {"btc"}, period : Periods, limit : 0..MaxLimit, current_time_ms : Anchors]

\* order_by(timestamp) and list.sort(key=timestamp): the rows as a list.
RECURSIVE SortByTimestamp(_)
SortByTimestamp(rows) ==
    IF rows = {} THEN <<>>
    ELSE LET first == CHOOSE r \in rows : \A q \in rows : r.timestamp <= q.timestamp
         IN  <<first>> \o SortByTimestamp(rows \ {first})

\* Variant: the upper bound of the query is inclusive.
QueryRecords_upto(rows, symbol, start_ts, end_ts) ==
    SortByTimestamp({r \in rows : /\ r.symbol = Upper(symbol)
                                  /\ r.timestamp >= start_ts
                                  /\ r.timestamp <= end_ts})

\* Lines 71-83: the query on MarketTradesAggregated.
QueryRecords(rows, symbol, start_ts, end_ts) ==
    SortByTimestamp({r \in rows : /\ r.symbol = Upper(symbol)
                                  /\ r.timestamp >= start_ts
                                  /\ r.timestamp < end_ts})

\* Lines 95-97.
bucket_idx_of(rec, end_ts, period_ms) == (end_ts - rec.timestamp) \div period_ms

bucket_start_of(rec, end_ts, period_ms) ==
    end_ts - (bucket_idx_of(rec, end_ts, period_ms) + 1) * period_ms

\* Lines 90-102: the dict buckets, bucket_start -> records in query order.
group_buckets(records, limit, end_ts, period_ms) ==
    LET kept(rec) == bucket_idx_of(rec, end_ts, period_ms) < limit
        starts == {bucket_start_of(records[k], end_ts, period_ms) :
                      k \in {j \in 1..Len(records) : kept(records[j])}}
        in_bucket(b, rec) == kept(rec) /\ bucket_start_of(rec, end_ts, period_ms) = b
    IN  [b \in starts |-> SelectSeq(records, LAMBDA rec : in_bucket(b, rec))]

SetMax(S) == CHOOSE x \in S : \A y \in S : y <= x
SetMin(S) == CHOOSE x \in S : \A y \in S : x <= y

RECURSIVE SumNotional(_)
SumNotional(recs) ==
    IF recs = <<>> THEN 0
    ELSE recs[1].taker_buy_notional + recs[1].taker_sell_notional + SumNotional(Tail(recs))

\* Variant: open from the last record and close from the first.
ohlc_candle_swapped(bucket_start, bucket_records) ==
    LET sorted == SortByTimestamp({bucket_records[k] : k \in 1..Len(bucket_records)})
        first_rec == sorted[1]
        last_rec == sorted[Len(sorted)]
        highs == {sorted[k].high_price : k \in {j \in 1..Len(sorted) : sorted[j].high_price # 0}}
        lows == {sorted[k].low_price : k \in {j \in 1..Len(sorted) : sorted[j].low_price # 0}}
    IN  [timestamp |-> bucket_start \div 1000,
         open |-> last_rec.vwap,
         high |-> IF highs = {} THEN 0 ELSE SetMax(highs),
         low |-> IF lows = {} THEN 0 ELSE SetMin(lows),
         close |-> first_rec.vwap,
         volume |-> SumNotional(sorted)]

\* Lines 113-134: one bucket as a candle. A falsy vwap gives 0; falsy highs
\* and lows are left out of max and min, whose default is 0.
ohlc_candle(bucket_start, bucket_records) ==
    LET sorted == SortByTimestamp({bucket_records[k] : k \in 1..Len(bucket_records)})
        first_rec == sorted[1]
        last_rec == sorted[Len(sorted)]
        highs == {sorted[k].high_price : k \in {j \in 1..Len(sorted) : sorted[j].high_price # 0}}
        lows == {sorted[k].low_price : k \in {j \in 1..Len(sorted) : sorted[j].low_price # 0}}
    IN  [timestamp |-> bucket_start \div 1000,
         open |-> first_rec.vwap,
         high |-> IF highs = {} THEN 0 ELSE SetMax(highs),
         low |-> IF lows = {} THEN 0 ELSE SetMin(lows),
         close |-> last_rec.vwap,
         volume |-> SumNotional(sorted)]

\* Variant: the loop runs from the newest bucket to the oldest.
RECURSIVE aggregate_buckets_newest_first(_, _, _, _, _)
aggregate_buckets_newest_first(bk, i, limit, end_ts, period_ms) ==
    IF i < 0 THEN <<>>
    ELSE LET bucket_start == end_ts - ((limit - 1 - i) + 1) * period_ms
         IN  (IF bucket_start \in DOMAIN bk
              THEN <<ohlc_candle(bucket_start, bk[bucket_start])>>
              ELSE <<>>)
             \o aggregate_buckets_newest_first(bk, i - 1, limit, end_ts, period_ms)

\* Lines 105-134: the loop "for i in range(limit - 1, -1, -1)" from index i on.
RECURSIVE aggregate_buckets(_, _, _, _, _)
aggregate_buckets(bk, i, limit, end_ts, period_ms) ==
    IF i < 0 THEN <<>>
    ELSE LET bucket_start == end_ts - (i + 1) * period_ms
         IN  (IF bucket_start \in DOMAIN bk
              THEN <<ohlc_candle(bucket_start, bk[bucket_start])>>
              ELSE <<>>)
             \o aggregate_buckets(bk, i - 1, limit, end_ts, period_ms)

\* Lines 34-140: the local buckets and the returned list. current_time_ms is
\* the anchor after the default of lines 57-58.
fetch_ohlc_from_flow(rows, symbol, period, limit, current_time_ms) ==
    LET period_ms == TimeframeMs(period)
        total_time_ms == limit * period_ms
        start_ts == current_time_ms - total_time_ms
        end_ts == current_time_ms
        records == QueryRecords(rows, symbol, start_ts, end_ts)
        bk == group_buckets(records, limit, end_ts, period_ms)
    IN  IF period_ms = 0 THEN [buckets |-> NoBuckets, result |-> <<>>]
        ELSE IF records = <<>> THEN [buckets |-> NoBuckets, result |-> <<>>]
        ELSE [buckets |-> bk,
              result |-> aggregate_buckets(bk, limit - 1, limit, end_ts, period_ms)]

FetchOhlcFromFlow ==
    /\ pc = "ohlc_call"
    /\ LET r == fetch_ohlc_from_flow(flow_rows, ohlc_args.symbol, ohlc_args.period,
                                     ohlc_args.limit, ohlc_args.current_time_ms)
       IN  /\ buckets' = r.buckets
           /\ ohlc_result' = r.result
    /\ pc' = "ohlc_returned"
    /\ UNCHANGED <<db_configs, config_id, timeframe, use_realtime, config, cvd_data,
                   taker_data, oi_delta_data, kline_data, fv, classified, result, trace,
                   indicators, flow_rows, ohlc_args>>
    /\ UNCHANGED candle_vars
    /\ UNCHANGED <<penalties, regimes_seen>>

InitBucketer ==
    /\ pc = "ohlc_call"
    /\ db_configs = ConfigRows
    /\ config_id = {}
    /\ timeframe = "5m"
    /\ use_realtime = FALSE
    /\ config = NoRow
    /\ cvd_data = FlowNone
    /\ taker_data = FlowNone
    /\ oi_delta_data = FlowNone
    /\ kline_data = <<>>
    /\ fv = NoFv
    /\ classified = NoClassified
    /\ result = NoResult
    /\ trace = <<>>
    /\ indicators = NoIndicators
    /\ flow_rows \in SUBSET RecordPool
    /\ ohlc_args \in OhlcArgs
    /\ buckets = NoBuckets
    /\ ohlc_result = <<>>
    /\ penalties = NoPenalties
    /\ regimes_seen = {}
    /\ kline_rows = {}
    /\ feed = NoFeed
    /\ kline_args = NoKlineArgs
    /\ kline_result = <<>>

NextBucketer == FetchOhlcFromFlow

SpecBucketer == InitBucketer /\ [][NextBucketer]_vars

----------------------------------------------------------------------------
(* fetch_kline_data and _fetch_kline_with_realtime: candles from the store, *)
(* from the flow records, or from the store overlaid with the live feed.    *)
(* Times are offsets from an epoch later than 2001-09-09 (1e9 s), so that a *)
(* feed timestamp exceeds 1e12 exactly when it is given in milliseconds.    *)

MaxCount == 3

KlineRow(sym, per, ts, o, h, l, c, v) ==
    [symbol |-> sym, period |-> per, timestamp |-> ts, open_price |-> o,
     high_price |-> h, low_price |-> l, close_price |-> c, volume |-> v]

\* Rows CryptoKline may hold (timestamp in seconds), one per symbol, period
\* and candle start.
KlinePool ==
    {KlineRow("BTC", "1m", 1020, 100, 102, 99, 101, 10),
     KlineRow("BTC", "1m", 1080, 101, 105, 100, 104, 11),
     KlineRow("BTC", "1m", 1140, 104, 106, 103, 105, 12),
     KlineRow("BTC", "1m", 1200, 105, 107, 104, 106, 13),
     KlineRow("BTC", "1m", 1260, 106, 109, 105, 108, 14),
     KlineRow("BTC", "5m", 900, 90, 110, 89, 106, 50),
     KlineRow("ETH", "1m", 1140, 50, 51, 49, 50, 7)}

\* A candle as the live feed hands it over: the timestamp in milliseconds or
\* in seconds.
FeedCandle(unit, value, o, h, l, c, v) ==
    [timestamp |-> [unit |-> unit, value |-> value],
     open |-> o, high |-> h, low |-> l, close |-> c, volume |-> v]

\* What get_kline_data_from_hyperliquid may answer. With raises = TRUE the
\* candles are those converted before the exception.
FeedAnswers ==
    {[raises |-> TRUE, candles |-> <<>>],
     [raises |-> TRUE, candles |-> <<FeedCandle("ms", 1200000, 205, 207, 204, 206, 23)>>],
     [raises |-> FALSE, candles |-> <<>>],
     [raises |-> FALSE,
      candles |-> <<FeedCandle("ms", 1140000, 204, 206, 203, 205, 22),
                    FeedCandle("ms", 1200000, 205, 207, 204, 206, 23)>>],
     [raises |-> FALSE,
      candles |-> <<FeedCandle("s", 1200, 205, 207, 204, 206, 23),
                    FeedCandle("s", 1260, 206, 209, 205, 208, 24)>>],
     [raises |-> FALSE,
      candles |-> <<FeedCandle("ms", 1260000, 206, 209, 205, 208, 24)>>]}

\* Tables of flow records for the use_realtime path.
FlowTables ==
    {{}, RecordPool, {r \in RecordPool : r.timestamp >= 1140000 /\ r.timestamp < 1200000}}

KlineArgs ==
    [symbol : {"BTC"}, period : {"1m", "5m"}, limit : 0..MaxCount,
     current_time_ms : {{}, {1200000}, {1207500}}, use_realtime : BOOLEAN]

Reverse(seq) == [i \in 1..Len(seq) |-> seq[Len(seq) + 1 - i]]

\* seq[-n:] if len(seq) > n else seq (Python: seq[-0:] is the whole list).
LastN(seq, n) ==
    IF Len(seq) > n
    THEN (IF n = 0 THEN seq ELSE SubSeq(seq, Len(seq) - n + 1, Len(seq)))
    ELSE seq

\* Variant: the oldest n rows.
QueryKlines_oldest(rows, symbol, period, current_time_ms, n) ==
    LET matching == {k \in rows : /\ k.symbol = symbol
                                  /\ k.period = period
                                  /\ \A t \in current_time_ms :
                                        k.timestamp <= t \div 1000}
        ascending == SortByTimestamp(matching)
    IN  Reverse(SubSeq(ascending, 1, Min(n, Len(ascending))))

\* Lines 185-193 and 483-493: the rows of the symbol and period, at or before
\* current_time_ms // 1000 when current_time_ms is given, newest first, at
\* most n of them.
QueryKlines(rows, symbol, period, current_time_ms, n) ==
    LET matching == {k \in rows : /\ k.symbol = symbol
                                  /\ k.period = period
                                  /\ \A t \in current_time_ms :
                                        k.timestamp <= t \div 1000}
        ascending == SortByTimestamp(matching)
    IN  Reverse(SubSeq(ascending, Len(ascending) - Min(n, Len(ascending)) + 1,
                       Len(ascending)))

\* Lines 198-205 and 501-508: a row as a candle dict (a falsy column gives 0).
KlineDict(k) ==
    [timestamp |-> k.timestamp, open |-> k.open_price, high |-> k.high_price,
     low |-> k.low_price, close |-> k.close_price, volume |-> k.volume]

\* Lines 166-168: "if ts > 1e12: ts = ts // 1000".
FeedTimestamp(ts) == IF ts.unit = "ms" THEN ts.value \div 1000 ELSE ts.value

FeedDict(k) ==
    [timestamp |-> FeedTimestamp(k.timestamp), open |-> k.open, high |-> k.high,
     low |-> k.low, close |-> k.close, volume |-> k.volume]

\* Variant: the candles converted before the exception are kept.
api_klines_of_partial(answer) ==
    [i \in 1..Len(answer.candles) |-> FeedDict(answer.candles[i])]

\* Lines 160-181: api_klines after the try block.
api_klines_of(answer) ==
    IF answer.raises THEN <<>>
    ELSE [i \in 1..Len(answer.candles) |-> FeedDict(answer.candles[i])]

\* Lines 196-209: the dict db_data after the merge, timestamp -> candle; the
\* last feed candle of a timestamp replaces whatever the dict held for it.
merge_klines(db_klines, api_klines) ==
    LET db_ts == {db_klines[i].timestamp : i \in 1..Len(db_klines)}
        api_ts == {api_klines[i].timestamp : i \in 1..Len(api_klines)}
        from_db(t) == KlineDict(db_klines[CHOOSE i \in 1..Len(db_klines) :
                                             db_klines[i].timestamp = t])
        from_api(t) ==
            api_klines[CHOOSE i \in 1..Len(api_klines) :
                          /\ api_klines[i].timestamp = t
                          /\ \A j \in 1..Len(api_klines) :
                                api_klines[j].timestamp = t => j <= i]
    IN  [t \in db_ts \cup api_ts |-> IF t \in api_ts THEN from_api(t) ELSE from_db(t)]

\* Lines 143-213.
fetch_kline_with_realtime(rows, answer, symbol, period, limit, current_time_ms) ==
    LET api_klines == api_klines_of(answer)
        db_limit == Max(limit - 5, limit)
        db_klines == QueryKlines(rows, symbol, period, current_time_ms, db_limit)
        db_data == merge_klines(db_klines, api_klines)
        sorted_klines == SortByTimestamp({db_data[t] : t \in DOMAIN db_data})
    IN  LastN(sorted_klines, limit)

\* Lines 482-509: the store-only path of fetch_kline_data.
fetch_kline_data_store(rows, symbol, period, limit, current_time_ms) ==
    LET klines == QueryKlines(rows, symbol, period, current_time_ms, limit)
        reversed == Reverse(klines)
    IN  IF klines = <<>> THEN <<>>
        ELSE [i \in 1..Len(reversed) |-> KlineDict(reversed[i])]

\* Lines 461-509: fetch_kline_data. With use_realtime it hands its arguments
\* to fetch_ohlc_from_flow, whose anchor defaults to the current time.
FetchKlineData ==
    /\ pc = "kline_call"
    /\ IF kline_args.use_realtime
       THEN \E now \in Anchors :
              LET anchor == IF kline_args.current_time_ms = {} THEN now
                            ELSE CHOOSE t \in kline_args.current_time_ms : TRUE
                  r == fetch_ohlc_from_flow(flow_rows, kline_args.symbol, kline_args.period,
                                            kline_args.limit, anchor)
              IN  /\ ohlc_args' = [symbol |-> kline_args.symbol,
                                   period |-> kline_args.period,
                                   limit |-> kline_args.limit,
                                   current_time_ms |-> anchor]
                  /\ buckets' = r.buckets
                  /\ ohlc_result' = r.result
                  /\ kline_result' = r.result
                  /\ trace' = Append(trace, "flow_store_read")
       ELSE /\ kline_result' = fetch_kline_data_store(kline_rows, kline_args.symbol,
                                   kline_args.period, kline_args.limit,
                                   kline_args.current_time_ms)
            /\ trace' = Append(trace, "candle_store_read")
            /\ UNCHANGED <<ohlc_args, buckets, ohlc_result>>
    /\ pc' = "kline_returned"
    /\ UNCHANGED <<db_configs, config_id, timeframe, use_realtime, config, cvd_data,
                   taker_data, oi_delta_data, kline_data, fv, classified, result,
                   indicators, flow_rows, penalties, regimes_seen, kline_rows, feed,
                   kline_args>>

\* Lines 143-213: _fetch_kline_with_realtime; a raise of the feed is caught.
FetchKlineWithRealtime ==
    /\ pc = "realtime_call"
    /\ kline_result' = fetch_kline_with_realtime(kline_rows, feed, kline_args.symbol,
                           kline_args.period, kline_args.limit, kline_args.current_time_ms)
    /\ trace' = trace \o <<"feed_read", "candle_store_read">>
    /\ pc' = "realtime_returned"
    /\ UNCHANGED bucketer_vars
    /\ UNCHANGED <<db_configs, config_id, timeframe, use_realtime, config, cvd_data,
                   taker_data, oi_delta_data, kline_data, fv, classified, result,
                   indicators, penalties, regimes_seen, kline_rows, feed, kline_args>>

InitCandles ==
    /\ pc \in {"kline_call", "realtime_call"}
    /\ db_configs = ConfigRows
    /\ config_id = {}
    /\ timeframe = "5m"
    /\ use_realtime = FALSE
    /\ config = NoRow
    /\ cvd_data = FlowNone
    /\ taker_data = FlowNone
    /\ oi_delta_data = FlowNone
    /\ kline_data = <<>>
    /\ fv = NoFv
    /\ classified = NoClassified
    /\ result = NoResult
    /\ trace = <<>>
    /\ indicators = NoIndicators
    /\ flow_rows \in FlowTables
    /\ ohlc_args = NoOhlcArgs
    /\ buckets = NoBuckets
    /\ ohlc_result = <<>>
    /\ penalties = NoPenalties
    /\ regimes_seen = {}
    /\ kline_rows \in SUBSET KlinePool
    /\ feed \in FeedAnswers
    /\ kline_args \in KlineArgs
    /\ kline_result = <<>>

NextCandles ==
    \/ FetchKlineData
    \/ FetchKlineWithRealtime

SpecCandles == InitCandles /\ [][NextCandles]_vars

----------------------------------------------------------------------------
(* Successive classifications under the default thresholds: the regimes    *)
(* produced so far are collected in regimes_seen.                           *)

ReachVector(cvd, taker, oi, price, rsi, range) ==
    [cvd_ratio |-> cvd, taker_log_ratio |-> taker, oi_delta |-> oi,
     price_atr |-> price, rsi |-> rsi, price_range_atr |-> range]

\* Indicator values in thousandths: a spike closing near its open, a strong
\* aligned move with rising OI (up and down), strong flow with falling OI at
\* an RSI extreme, the same at a middle RSI, strong flow without price
\* movement, a moderate aligned move, and a flat market.
ReachVectors ==
    {ReachVector(0, 0, 0, 100, 50000, 2000),
     ReachVector(200, 0, 1500, 600, 50000, 800),
     ReachVector(-200, 0, 1500, -600, 50000, 800),
     ReachVector(200, 0, -1500, 100, 80000, 100),
     ReachVector(200, 0, -1500, 100, 50000, 100),
     ReachVector(200, 0, 0, 100, 50000, 100),
     ReachVector(60, 0, 0, 400, 50000, 500),
     ReachVector(-60, 0, 0, -400, 50000, 500),
     ReachVector(0, 0, 0, 0, 50000, 0)}

\* The next call of get_market_regime with the same config: new indicator
\* values reach classify_regime.
NextCall ==
    /\ pc = "done"
    /\ fv' \in ReachVectors
    /\ classified' = NoClassified
    /\ result' = NoResult
    /\ penalties' = NoPenalties
    /\ trace' = <<>>
    /\ pc' = "classify"
    /\ UNCHANGED bucketer_vars
    /\ UNCHANGED candle_vars
    /\ UNCHANGED <<indicators, db_configs, config_id, timeframe, use_realtime, config,
                   cvd_data, taker_data, oi_delta_data, kline_data, regimes_seen>>

InitReach ==
    /\ pc = "classify"
    /\ db_configs = ConfigRows
    /\ config_id = {}
    /\ timeframe = "5m"
    /\ use_realtime = FALSE
    /\ config = DefaultRow
    /\ cvd_data = FlowNone
    /\ taker_data = FlowNone
    /\ oi_delta_data = FlowNone
    /\ kline_data = <<>>
    /\ fv \in ReachVectors
    /\ classified = NoClassified
    /\ result = NoResult
    /\ trace = <<>>
    /\ indicators = NoIndicators
    /\ flow_rows = {}
    /\ ohlc_args = NoOhlcArgs
    /\ buckets = NoBuckets
    /\ ohlc_result = <<>>
    /\ penalties = NoPenalties
    /\ regimes_seen = {}
    /\ kline_rows = {}
    /\ feed = NoFeed
    /\ kline_args = NoKlineArgs
    /\ kline_result = <<>>

NextReach ==
    \/ Classify
    \/ Score
    \/ NextCall

SpecReach == InitReach /\ [][NextReach]_vars

----------------------------------------------------------------------------
(* Specification of the two penalties as pure functions: the regime and the *)
(* indicators are arbitrary, then lines 660-695 run.                        *)

PenaltyCvdRatios == {-200, -30, -20, -10, 0, 20, 25, 30, 200}
PenaltyPriceAtrs == {-600, -500, -100, -50, 0, 100, 150, 500, 600}
PenaltyTakerLogRatios == {-1000, -150, 0, 150, 200}
PenaltyOiDeltas == {-2000, 2000}
PenaltyRsis == {20000, 30000, 50000, 70000, 80000}
PenaltyPriceRangeAtrs == {0, 200, 1000, 1200}

PenaltyVectors ==
    [cvd_ratio : PenaltyCvdRatios, taker_log_ratio : PenaltyTakerLogRatios,
     oi_delta : PenaltyOiDeltas, price_atr : PenaltyPriceAtrs, rsi : PenaltyRsis,
     price_range_atr : PenaltyPriceRangeAtrs]

\* Every (regime, reason) pair classify_regime can hand to the scorer.
ClassifiedValues ==
    {[regime |-> REGIME_STOP_HUNT, reason |-> "Price spiked but closed near open"],
     [regime |-> REGIME_BREAKOUT, reason |-> "Bullish breakout with aligned signals"],
     [regime |-> REGIME_BREAKOUT, reason |-> "Bearish breakout with aligned signals"],
     [regime |-> REGIME_EXHAUSTION, reason |-> "Trend exhaustion at RSI extreme"],
     [regime |-> REGIME_TRAP,
      reason |-> "Strong flow but positions closing with reversal (trap)"],
     [regime |-> REGIME_ABSORPTION, reason |-> "Strong flow absorbed without price movement"],
     [regime |-> REGIME_CONTINUATION, reason |-> "Bullish trend continuation"],
     [regime |-> REGIME_CONTINUATION, reason |-> "Bearish trend continuation"],
     noise_result}

InitScore ==
    /\ pc = "score"
    /\ db_configs = ConfigRows
    /\ config_id = {}
    /\ timeframe = "5m"
    /\ use_realtime = FALSE
    /\ config = DefaultRow
    /\ cvd_data = FlowNone
    /\ taker_data = FlowNone
    /\ oi_delta_data = FlowNone
    /\ kline_data = <<>>
    /\ fv \in PenaltyVectors
    /\ classified \in ClassifiedValues
    /\ result = NoResult
    /\ trace = <<>>
    /\ indicators = NoIndicators
    /\ flow_rows = {}
    /\ ohlc_args = NoOhlcArgs
    /\ buckets = NoBuckets
    /\ ohlc_result = <<>>
    /\ penalties = NoPenalties
    /\ regimes_seen = {}
    /\ kline_rows = {}
    /\ feed = NoFeed
    /\ kline_args = NoKlineArgs
    /\ kline_result = <<>>

NextScore == Score

SpecScore == InitScore /\ [][NextScore]_vars

----------------------------------------------------------------------------
(* Properties of get_market_regime (Spec)                                   *)

\* The result of an early return: noise, neutral, confidence 0, no indicators.
IsTerminalResult(r) ==
    /\ r.regime = "noise"
    /\ r.direction = "neutral"
    /\ r.confidence = 0
    /\ r.indicators = {}

\* The flow read handed back no usable CVD entry or no usable TAKER entry.
FlowAbsent == cvd_data.kind # "dict" \/ taker_data.kind # "dict"

\* C8: every result get_market_regime returns has its confidence in [0, 1]
\* (0..1000 milli), and the base confidence of a complete result lies in
\* [0, 1] (0..100000), whatever the magnitudes of the indicators.
C8_ConfidenceInUnitInterval ==
    pc = "done" =>
        /\ result.confidence >= 0
        /\ result.confidence <= 1000
        /\ LET base == calculate_confidence(fv.cvd_ratio, fv.taker_log_ratio,
                                            fv.oi_delta, fv.price_atr)
           IN  base >= 0 /\ base <= 100000

\* C8 witness: a complete result whose four magnitudes all exceed their caps
\* (0.3, 1.0, 5.0, 2.0) and whose confidence is exactly 1.
C8_Witness ==
    /\ pc = "done"
    /\ result.indicators # {}
    /\ Abs(fv.cvd_ratio) > 300
    /\ Abs(fv.taker_log_ratio) > 1000
    /\ Abs(fv.oi_delta) > 5000
    /\ Abs(fv.price_atr) > 2000
    /\ result.confidence = 1000

\* C9: when the flow read supplies no CVD entry or no TAKER entry, the call
\* returns regime noise with confidence 0, and neither the candle read nor
\* the classification has run.
C9_FlowAbsentIsNoise ==
    (pc = "done" /\ Len(trace) >= 3 /\ trace[3] = "flow_read" /\ FlowAbsent) =>
        /\ result.regime = "noise"
        /\ result.confidence = 0
        /\ trace = <<"config_read", "timeframe_check", "flow_read">>

\* C9 witness: a call returned with a CVD entry present and the TAKER entry
\* missing.
C9_Witness ==
    /\ pc = "done"
    /\ trace = <<"config_read", "timeframe_check", "flow_read">>
    /\ cvd_data.kind = "dict" /\ cvd_data.has_current
    /\ taker_data.kind = "None"
    /\ result.reason = "Insufficient market flow data"

\* C10: every call that returns ends in exactly one of config-missing,
\* unsupported-timeframe, insufficient-flow-data and complete, decided in
\* that order: config-missing has read only the config, unsupported-timeframe
\* has not read flow or candles, insufficient-flow-data has not read candles,
\* and only a complete call ran candle retrieval, price metrics,
\* classification and scoring; the three failures return noise, neutral,
\* confidence 0 and empty indicators.
C10_OrderedTerminalStates ==
    pc = "done" =>
        \/ /\ config = NoRow
           /\ trace = <<"config_read">>
           /\ result.reason = "No regime config found"
           /\ IsTerminalResult(result)
        \/ /\ config # NoRow
           /\ timeframe \notin {"1m", "5m", "15m", "1h"}
           /\ trace = <<"config_read", "timeframe_check">>
           /\ result.reason = "Unsupported timeframe: " \o timeframe
           /\ IsTerminalResult(result)
        \/ /\ config # NoRow
           /\ timeframe \in {"1m", "5m", "15m", "1h"}
           /\ FlowAbsent
           /\ trace = <<"config_read", "timeframe_check", "flow_read">>
           /\ result.reason = "Insufficient market flow data"
           /\ IsTerminalResult(result)
        \/ /\ config # NoRow
           /\ timeframe \in {"1m", "5m", "15m", "1h"}
           /\ ~FlowAbsent
           /\ trace \in
                {<<"config_read", "timeframe_check", "flow_read", "candle_read",
                   "price_metrics", "classify", "score">>,
                 <<"config_read", "timeframe_check", "flow_read", "candle_read",
                   "calculate_indicators", "price_metrics", "classify", "score">>}
           /\ result.regime = classified.regime
           /\ result.reason = classified.reason
           /\ classified \in RegimeReasonPairs
           /\ result.indicators # {}

\* C10 witness: a call with a config and an unsupported timeframe returned
\* the terminal result without a flow or candle read.
C10_Witness ==
    /\ pc = "done"
    /\ config # NoRow
    /\ timeframe = "7m"
    /\ trace = <<"config_read", "timeframe_check">>
    /\ IsTerminalResult(result)

\* The call got past the config lookup, the timeframe check and the flow
\* check, and read fewer than 15 candles.
FewCandles ==
    /\ config # NoRow
    /\ timeframe \in TIMEFRAME_MS
    /\ ~FlowAbsent
    /\ Len(trace) >= 4 /\ trace[4] = "candle_read"
    /\ Len(kline_data) < MinKlines

\* C11: when the config exists, the timeframe is supported and CVD and taker
\* data are present but fewer than 15 candles are available, the call returns
\* regime noise with confidence 0, whatever the flow values are.
C11_FewCandlesIsNoise ==
    (pc = "done" /\ FewCandles) =>
        /\ result.regime = "noise"
        /\ result.confidence = 0

\* A result with every field in its range.
WellFormed(r) ==
    /\ r.regime \in Regimes
    /\ r.direction \in {DIRECTION_BULLISH, DIRECTION_BEARISH, DIRECTION_NEUTRAL}
    /\ r.confidence >= 0 /\ r.confidence <= 1000
    /\ r.reason # ""

\* C12: whatever the collaborators do, a raise of the config read, the flow
\* read, the candle read or the indicator library included, the call ends by
\* returning a well-formed result and never with the error.
C12_NeverPropagates ==
    pc \in {"done", "raised"} => (pc = "done" /\ WellFormed(result))

\* How many of the three signals are strictly positive, strictly negative.
Positives(cvd_ratio, taker_log_ratio, price_atr) ==
    (IF cvd_ratio > 0 THEN 1 ELSE 0) + (IF taker_log_ratio > 0 THEN 1 ELSE 0)
    + (IF price_atr > 0 THEN 1 ELSE 0)

Negatives(cvd_ratio, taker_log_ratio, price_atr) ==
    (IF cvd_ratio < 0 THEN 1 ELSE 0) + (IF taker_log_ratio < 0 THEN 1 ELSE 0)
    + (IF price_atr < 0 THEN 1 ELSE 0)

\* C13: calculate_direction is a majority vote over the signs of cvd_ratio,
\* taker_log_ratio and price_atr: bullish whenever at least two are strictly
\* positive, bearish whenever at least two are strictly negative, neutral
\* otherwise.
C13_MajorityVote ==
    (pc = "done" /\ result.indicators # {}) =>
        LET pos == Positives(fv.cvd_ratio, fv.taker_log_ratio, fv.price_atr)
            neg == Negatives(fv.cvd_ratio, fv.taker_log_ratio, fv.price_atr)
        IN  result.direction = IF pos >= 2 THEN DIRECTION_BULLISH
                               ELSE IF neg >= 2 THEN DIRECTION_BEARISH
                               ELSE DIRECTION_NEUTRAL

\* C14: a breakout returned with cvd_ratio > 0 and price_atr > 0 (reason
\* "Bullish breakout with aligned signals") has direction bullish, and one
\* returned with both negative has direction bearish.
C14_BreakoutDirection ==
    (pc = "done" /\ result.regime = REGIME_BREAKOUT) =>
        /\ (fv.cvd_ratio > 0 /\ fv.price_atr > 0) =>
               /\ result.reason = "Bullish breakout with aligned signals"
               /\ result.direction = DIRECTION_BULLISH
        /\ (fv.cvd_ratio < 0 /\ fv.price_atr < 0) =>
               /\ result.reason = "Bearish breakout with aligned signals"
               /\ result.direction = DIRECTION_BEARISH

----------------------------------------------------------------------------
(* Properties of calculate_price_metrics (SpecPriceMetrics)                 *)

\* C18: with fewer than 15 candles, the empty sequence included,
\* calculate_price_metrics returns exactly price_atr 0, price_range_atr 0 and
\* rsi 50, the indicator library is not called, and nothing is raised.
C18_ShortHistoryDefaults ==
    (Len(kline_data) < 15 /\ pc # "price_metrics") =>
        /\ pc = "classify"
        /\ fv.price_atr = 0
        /\ fv.price_range_atr = 0
        /\ fv.rsi = 50000
        /\ trace = <<"price_metrics">>
        /\ indicators = NoIndicators

\* C18 witness: the metrics of 14 candles whose last one moved.
C18_Witness ==
    /\ pc = "classify"
    /\ Len(kline_data) = 14
    /\ kline_data[14].close # kline_data[14].open
    /\ fv.rsi = 50000

\* C19: with 15 or more candles, price_atr and price_range_atr are 0 when the
\* ATR series is empty or its latest value is 0, and otherwise (close - open)
\* / atr and (high - low) / atr of the last candle with atr the latest ATR
\* value; rsi is the latest RSI value, or 50 when the RSI series is empty.
C19_LatestIndicatorValues ==
    (Len(kline_data) >= 15 /\ pc = "classify") =>
        LET atr_values == indicators.ATR14
            rsi_values == indicators.RSI14
            latest == kline_data[Len(kline_data)]
        IN  /\ IF atr_values = <<>> \/ atr_values[Len(atr_values)] = 0
               THEN fv.price_atr = 0 /\ fv.price_range_atr = 0
               ELSE /\ fv.price_atr =
                         DivRound((latest.close - latest.open) * 1000,
                                  atr_values[Len(atr_values)])
                    /\ fv.price_range_atr =
                         DivRound((latest.high - latest.low) * 1000,
                                  atr_values[Len(atr_values)])
            /\ fv.rsi = IF rsi_values = <<>> THEN 50000
                        ELSE rsi_values[Len(rsi_values)]

\* C19 witness: 15 candles, the last one rising by 8 over a range of 10, the
\* ATR series ending in 2 and the RSI series ending in 20: price_atr 4.0,
\* price_range_atr 5.0, rsi 20.
C19_Witness ==
    /\ pc = "classify"
    /\ Len(kline_data) >= 15
    /\ indicators = [ATR14 |-> <<10, 2>>, RSI14 |-> <<80000, 20000>>]
    /\ fv.price_atr = 4000
    /\ fv.price_range_atr = 5000
    /\ fv.rsi = 20000

----------------------------------------------------------------------------
(* Flow metrics of get_market_regime (Spec)                                 *)

\* The flow read handed back CVD and TAKER entries, so lines 627-643 ran.
FlowMetricsComputed ==
    /\ Len(trace) >= 3 /\ trace[3] = "flow_read"
    /\ ~FlowAbsent

\* C20: taker_log_ratio is 0 whenever taker_buy or taker_sell is not strictly
\* positive and ln(taker_buy / taker_sell) otherwise; cvd_ratio is 0 whenever
\* taker_buy + taker_sell is not positive and cvd_current / (taker_buy +
\* taker_sell) otherwise; the step never ends the call.
C20_FlowMetrics ==
    FlowMetricsComputed =>
        LET cvd_current == IF cvd_data.has_current THEN cvd_data.current ELSE 0
            taker_buy == taker_data.buy
            taker_sell == taker_data.sell
        IN  /\ fv.taker_log_ratio =
                   IF taker_buy <= 0 \/ taker_sell <= 0 THEN 0
                   ELSE Ln(DivRound(taker_buy * 1000, taker_sell))
            /\ fv.cvd_ratio =
                   IF taker_buy + taker_sell <= 0 THEN 0
                   ELSE DivRound(cvd_current * 1000, taker_buy + taker_sell)
            /\ pc = "raised" => trace[Len(trace)] # "flow_read"

\* C20 witness: buy 80 against sell 20 gives ln 4 = 1.386 and CVD 16 over a
\* total of 100 gives 0.16.
C20_Witness ==
    /\ FlowMetricsComputed
    /\ taker_data.buy = 80 /\ taker_data.sell = 20
    /\ cvd_data.current = 16
    /\ fv.taker_log_ratio = 1386
    /\ fv.cvd_ratio = 160

\* C20, second case: a zero total gives both metrics 0.
FlowMetricsZeroCase ==
    /\ FlowMetricsComputed
    /\ taker_data.buy = 0 /\ taker_data.sell = 0
    /\ cvd_data.current # 0
    /\ fv.taker_log_ratio = 0
    /\ fv.cvd_ratio = 0

----------------------------------------------------------------------------
(* Properties of fetch_ohlc_from_flow (SpecBucketer)                        *)

\* The arguments as the claims name them: anchor, interval length, count N.
AnchorTs == ohlc_args.current_time_ms
IntervalMs == TimeframeMs(ohlc_args.period)
CandleCount == ohlc_args.limit

\* The raw flow records of the queried symbol.
SymbolRows == {r \in flow_rows : r.symbol = "BTC"}

\* The window is [anchor - N * interval, anchor).
InWindow(r) ==
    /\ r.timestamp >= AnchorTs - CandleCount * IntervalMs
    /\ r.timestamp < AnchorTs

\* The interval of a record, counted back from the anchor: index
\* floor((anchor - timestamp) / interval); the N intervals of the window are
\* the indices 0..N-1, and interval i starts at anchor - (i + 1) * interval.
IntervalIndex(r) == (AnchorTs - r.timestamp) \div IntervalMs

IntervalStart(i) == AnchorTs - (i + 1) * IntervalMs

\* The records of the window that fall into interval i.
IntervalRecords(i) ==
    {r \in SymbolRows : InWindow(r) /\ IntervalIndex(r) = i}

\* The raw records are not empty and all lie within one interval of the window.
WithinOneInterval ==
    /\ IntervalMs > 0
    /\ SymbolRows # {}
    /\ \E i \in 0..(CandleCount - 1) : IntervalRecords(i) = SymbolRows

\* C15: for a non-empty set of records that all lie within one interval of
\* the window, fetch_ohlc_from_flow returns exactly one candle: open is the
\* vwap of the earliest record, close the vwap of the latest, high the
\* maximum of the highs, low the minimum of the lows, and volume the sum of
\* taker buy and sell notional over the records.
C15_OneIntervalOneCandle ==
    (pc = "ohlc_returned" /\ WithinOneInterval) =>
        /\ Len(ohlc_result) = 1
        /\ \E earliest \in SymbolRows, latest \in SymbolRows :
              /\ \A r \in SymbolRows : earliest.timestamp <= r.timestamp
              /\ \A r \in SymbolRows : r.timestamp <= latest.timestamp
              /\ ohlc_result[1].open = earliest.vwap
              /\ ohlc_result[1].close = latest.vwap
        /\ \E r \in SymbolRows : ohlc_result[1].high = r.high_price
        /\ \A r \in SymbolRows : r.high_price <= ohlc_result[1].high
        /\ \E r \in SymbolRows : ohlc_result[1].low = r.low_price
        /\ \A r \in SymbolRows : ohlc_result[1].low <= r.low_price
        /\ ohlc_result[1].volume = SumNotional(SortByTimestamp(SymbolRows))

\* C15 witness: four records inside one 5-minute interval, the highest high
\* on a record that is neither the earliest nor the latest.
C15_Witness ==
    /\ pc = "ohlc_returned"
    /\ WithinOneInterval
    /\ Cardinality(SymbolRows) = 4
    /\ Len(ohlc_result) = 1
    /\ ohlc_result[1].open = 104 /\ ohlc_result[1].close = 106
    /\ ohlc_result[1].high = 112 /\ ohlc_result[1].low = 96
    /\ ohlc_result[1].volume = 14

\* The rows of the window alone.
WindowRows == {r \in flow_rows : InWindow(r)}

\* C16: no record with timestamp < anchor - N * interval and no record with
\* timestamp >= anchor contributes to a returned candle: every record of every
\* bucket lies in the window, and the rows outside the window can be removed
\* without changing the returned candles.
C16_OnlyWindowRecordsContribute ==
    pc = "ohlc_returned" =>
        /\ \A b \in DOMAIN buckets : \A k \in 1..Len(buckets[b]) :
              /\ buckets[b][k].timestamp >= AnchorTs - CandleCount * IntervalMs
              /\ buckets[b][k].timestamp < AnchorTs
        /\ ohlc_result =
              fetch_ohlc_from_flow(WindowRows, ohlc_args.symbol, ohlc_args.period,
                                   ohlc_args.limit, ohlc_args.current_time_ms).result

\* C16 witness: rows before the window, at the anchor and after it are in the
\* table, and candles were returned.
C16_Witness ==
    /\ pc = "ohlc_returned"
    /\ ohlc_result # <<>>
    /\ \E r \in SymbolRows : r.timestamp < AnchorTs - CandleCount * IntervalMs
    /\ \E r \in SymbolRows : r.timestamp = AnchorTs
    /\ \E r \in SymbolRows : r.timestamp > AnchorTs

\* The intervals of the window that have a contributing record.
FilledIntervals == {i \in 0..(CandleCount - 1) : IntervalRecords(i) # {}}

\* C17: the result holds at most N candles, oldest first with strictly
\* increasing timestamps, exactly one candle for each of the N intervals with
\* a contributing record and none for an empty interval; with no record in
\* the window the result is the empty sequence.
C17_OneCandlePerFilledInterval ==
    (pc = "ohlc_returned" /\ IntervalMs > 0) =>
        /\ Len(ohlc_result) <= CandleCount
        /\ \A k \in 1..(Len(ohlc_result) - 1) :
              ohlc_result[k].timestamp < ohlc_result[k + 1].timestamp
        /\ Len(ohlc_result) = Cardinality(FilledIntervals)
        /\ {ohlc_result[k].timestamp : k \in 1..Len(ohlc_result)}
               = {IntervalStart(i) \div 1000 : i \in FilledIntervals}
        /\ (\A r \in SymbolRows : ~InWindow(r)) => ohlc_result = <<>>

\* C17 witness: of three 1-minute intervals the middle one is empty, and two
\* candles come back, the older first.
C17_Witness ==
    /\ pc = "ohlc_returned"
    /\ CandleCount = 3
    /\ FilledIntervals = {0, 2}
    /\ Len(ohlc_result) = 2
    /\ ohlc_result[1].timestamp = 1027
    /\ ohlc_result[2].timestamp = 1147

\* C17, second case: rows exist but none in the window, and nothing was
\* returned.
EmptyWindowCase ==
    /\ pc = "ohlc_returned"
    /\ IntervalMs > 0 /\ CandleCount > 0
    /\ SymbolRows # {}
    /\ \A r \in SymbolRows : ~InWindow(r)
    /\ ohlc_result = <<>>

----------------------------------------------------------------------------
(* Properties of the penalties (SpecScore)                                  *)

\* The multipliers (hundredths) 1.0 less the fixed amounts of the unmet
\* expectations of each regime.
PatternPenaltyValues(regime) ==
    CASE regime = REGIME_BREAKOUT -> {100, 100 - 12, 100 - 8, 100 - 12 - 8}
      [] regime = REGIME_ABSORPTION -> {100, 100 - 10, 100 - 8, 100 - 10 - 8}
      [] regime = REGIME_CONTINUATION -> {100, 100 - 15}
      [] regime = REGIME_EXHAUSTION -> {100, 100 - 10}
      [] regime = REGIME_TRAP -> {100, 100 - 12}
      [] regime = REGIME_STOP_HUNT -> {100, 100 - 10, 100 - 8, 100 - 10 - 8}
      [] regime = REGIME_NOISE -> {100 - 15}

\* C21: for every regime and every input calculate_pattern_penalty returns a
\* multiplier in [0.70, 1.0] that is 1.0 less fixed amounts for the unmet
\* expectations of the regime, and exactly 0.85 for noise.
C21_PatternPenaltyRange ==
    pc = "done" =>
        /\ penalties.pattern >= 70 /\ penalties.pattern <= 100
        /\ penalties.pattern \in PatternPenaltyValues(classified.regime)
        /\ classified.regime = REGIME_NOISE => penalties.pattern = 85

\* C21 witness: noise scored on strong, aligned indicators still gets 0.85.
C21_Witness ==
    /\ pc = "done"
    /\ classified.regime = REGIME_NOISE
    /\ fv.cvd_ratio = 200 /\ fv.price_atr = 600 /\ fv.rsi = 80000
    /\ penalties.pattern = 85

\* C21, second case: a stop hunt with a small range and a large body loses
\* both amounts.
PatternPenaltyBothCase ==
    /\ pc = "done"
    /\ classified.regime = REGIME_STOP_HUNT
    /\ penalties.pattern = 82

\* Coarse directions with the deadbands 0.02, 0.1 and 0.15.
CoarseDir(x, deadband) == IF x > deadband THEN 1 ELSE IF x < -deadband THEN -1 ELSE 0

CoarseDirs ==
    <<CoarseDir(fv.cvd_ratio, 20), CoarseDir(fv.price_atr, 100),
      CoarseDir(fv.taker_log_ratio, 150)>>

NonZeroCount == Cardinality({i \in 1..3 : CoarseDirs[i] # 0})

DirsContradict ==
    (\E i \in 1..3 : CoarseDirs[i] = 1) /\ (\E i \in 1..3 : CoarseDirs[i] = -1)

DirsAllEqual ==
    \A i, j \in {k \in 1..3 : CoarseDirs[k] # 0} : CoarseDirs[i] = CoarseDirs[j]

\* C22: calculate_direction_penalty returns 1.0 for every regime, noise
\* included, when fewer than two coarse directions are non-zero; otherwise
\* 0.85 for breakout / continuation exactly when the directions contain both
\* +1 and -1, 0.88 for absorption / trap exactly when all non-zero directions
\* are equal, 0.90 for noise, and 1.0 in every other case; always in [0.85, 1].
C22_DirectionPenalty ==
    pc = "done" =>
        /\ penalties.direction >= 85 /\ penalties.direction <= 100
        /\ penalties.direction =
              IF NonZeroCount < 2 THEN 100
              ELSE IF classified.regime \in {REGIME_BREAKOUT, REGIME_CONTINUATION}
                      /\ DirsContradict THEN 85
              ELSE IF classified.regime \in {REGIME_ABSORPTION, REGIME_TRAP}
                      /\ DirsAllEqual THEN 88
              ELSE IF classified.regime = REGIME_NOISE THEN 90
              ELSE 100

\* C22 witness: noise with only the price direction non-zero (cvd exactly on
\* its deadband) is not penalised.
C22_Witness ==
    /\ pc = "done"
    /\ classified.regime = REGIME_NOISE
    /\ fv.cvd_ratio = 20 /\ fv.price_atr = 150 /\ fv.taker_log_ratio = 150
    /\ penalties.direction = 100

----------------------------------------------------------------------------
(* Properties of _fetch_kline_with_realtime and fetch_kline_data           *)
(* (SpecCandles).                                                           *)

\* The store rows the call may use: its symbol and period, at or before the
\* anchor in whole seconds when an anchor is given.
StoreCandidates ==
    {k \in kline_rows : /\ k.symbol = kline_args.symbol
                        /\ k.period = kline_args.period
                        /\ \A t \in kline_args.current_time_ms :
                              k.timestamp <= t \div 1000}

StoreCandidateTs == {k.timestamp : k \in StoreCandidates}

\* The live-feed candles of a feed that answered, in seconds.
FeedSeconds(c) ==
    IF c.timestamp.unit = "ms" THEN c.timestamp.value \div 1000 ELSE c.timestamp.value

FeedAnswered == IF feed.raises THEN {} ELSE 1..Len(feed.candles)

FeedTs == {FeedSeconds(feed.candles[i]) : i \in FeedAnswered}

\* The n most recent timestamps of a set.
MostRecent(ts, n) == {t \in ts : Cardinality({u \in ts : u > t}) < n}

ResultTs == {kline_result[k].timestamp : k \in 1..Len(kline_result)}

ChronologicalUnique ==
    \A j, k \in 1..Len(kline_result) :
        j < k => kline_result[j].timestamp < kline_result[k].timestamp

SameValues(candle, o, h, l, c, v) ==
    /\ candle.open = o /\ candle.high = h /\ candle.low = l
    /\ candle.close = c /\ candle.volume = v

FromStore(candle) ==
    \E r \in StoreCandidates :
        /\ r.timestamp = candle.timestamp
        /\ SameValues(candle, r.open_price, r.high_price, r.low_price,
                      r.close_price, r.volume)

FromFeed(candle) ==
    \E i \in FeedAnswered :
        /\ FeedSeconds(feed.candles[i]) = candle.timestamp
        /\ \A j \in FeedAnswered :
              FeedSeconds(feed.candles[j]) = candle.timestamp => j <= i
        /\ SameValues(candle, feed.candles[i].open, feed.candles[i].high,
                      feed.candles[i].low, feed.candles[i].close,
                      feed.candles[i].volume)

\* What the hybrid overlay promises of its result: strictly increasing
\* timestamps, at most the requested count of candles, the most recent of
\* the store and feed candles together, and the feed's values on every
\* timestamp the feed supplied.
OverlayContract ==
    /\ ChronologicalUnique
    /\ Len(kline_result) <= kline_args.limit
    /\ ResultTs = MostRecent(FeedTs \cup StoreCandidateTs, kline_args.limit)
    /\ \A k \in 1..Len(kline_result) :
          IF kline_result[k].timestamp \in FeedTs
          THEN FromFeed(kline_result[k])
          ELSE FromStore(kline_result[k])

\* C23: the hybrid overlay returns candles in strictly increasing timestamp
\* order, at most the requested count of them, the most recent of the store
\* and feed candles together; a candle whose timestamp the feed supplied
\* carries the feed's values, also when the store holds a candle of that
\* timestamp.
C23_FeedWinsSortedTruncated ==
    pc = "realtime_returned" => OverlayContract

\* The same for a requested count of at least one.
OverlayContractPositiveCount ==
    (pc = "realtime_returned" /\ kline_args.limit >= 1) => OverlayContract

\* A count of zero is requested and the feed supplies candles.
ZeroCountCase ==
    /\ pc = "realtime_returned"
    /\ kline_args.limit = 0
    /\ FeedTs # {}

\* A returned candle present in both sources, with older candles cut off.
CollisionTruncatedCase ==
    /\ pc = "realtime_returned"
    /\ ResultTs \cap FeedTs \cap StoreCandidateTs # {}
    /\ Cardinality(FeedTs \cup StoreCandidateTs) > kline_args.limit
    /\ Len(kline_result) = kline_args.limit

\* C24: when the feed fetch raises, the overlay still returns, and returns
\* what it returns for an empty feed: the most recent store candles at or
\* before the anchor, at most the requested count, oldest first.
C24_FeedFailureIsEmptyFeed ==
    (pc = "realtime_returned" /\ feed.raises) =>
        /\ kline_result =
              fetch_kline_with_realtime(kline_rows, [raises |-> FALSE, candles |-> <<>>],
                  kline_args.symbol, kline_args.period, kline_args.limit,
                  kline_args.current_time_ms)
        /\ ChronologicalUnique
        /\ Len(kline_result) <= kline_args.limit
        /\ ResultTs = MostRecent(StoreCandidateTs, kline_args.limit)
        /\ \A k \in 1..Len(kline_result) : FromStore(kline_result[k])

\* The feed raised after handing over a candle, and store candles came back.
C24_Witness ==
    /\ pc = "realtime_returned"
    /\ feed.raises
    /\ feed.candles # <<>>
    /\ kline_result # <<>>
    /\ kline_args.current_time_ms # {}

\* C25: without use_realtime fetch_kline_data returns at most the requested
\* count of store candles, none after the anchor in whole seconds, the most
\* recent such, oldest first, and reads only the candle store; with
\* use_realtime it returns what fetch_ohlc_from_flow returns and reads only
\* the flow records.
C25_FetchKlineData ==
    pc = "kline_returned" =>
        IF kline_args.use_realtime
        THEN /\ trace = <<"flow_store_read">>
             /\ kline_result = ohlc_result
             /\ ohlc_args.current_time_ms \in
                   (IF kline_args.current_time_ms = {} THEN Anchors
                    ELSE kline_args.current_time_ms)
             /\ kline_result =
                   fetch_ohlc_from_flow(flow_rows, kline_args.symbol, kline_args.period,
                       kline_args.limit, ohlc_args.current_time_ms).result
        ELSE /\ trace = <<"candle_store_read">>
             /\ ChronologicalUnique
             /\ Len(kline_result) <= kline_args.limit
             /\ \A t \in kline_args.current_time_ms :
                   \A k \in 1..Len(kline_result) :
                       kline_result[k].timestamp <= t \div 1000
             /\ ResultTs = MostRecent(StoreCandidateTs, kline_args.limit)
             /\ \A k \in 1..Len(kline_result) : FromStore(kline_result[k])

\* The store holds a candle after the anchor and more candidates than were
\* asked for.
C25_Witness ==
    /\ pc = "kline_returned"
    /\ ~kline_args.use_realtime
    /\ kline_args.current_time_ms # {}
    /\ Len(kline_result) = kline_args.limit
    /\ Cardinality(StoreCandidates) > kline_args.limit
    /\ \E k \in kline_rows :
          /\ k.symbol = kline_args.symbol
          /\ k.period = kline_args.period
          /\ k \notin StoreCandidates

\* The use_realtime case with candles in the store and candles returned.
RealtimeDelegationCase ==
    /\ pc = "kline_returned"
    /\ kline_args.use_realtime
    /\ kline_rows # {}
    /\ kline_result # <<>>

\* C27: with an anchor, every candle the hybrid overlay returns has a
\* timestamp at or before the anchor in whole seconds.
C27_NothingAfterAnchor ==
    pc = "realtime_returned" =>
        \A t \in kline_args.current_time_ms :
            \A k \in 1..Len(kline_result) :
                kline_result[k].timestamp <= t \div 1000

----------------------------------------------------------------------------
(* The interval of a contributing record (SpecBucketer).                   *)

\* C26: every record that contributes to the candle stamped T has a
\* timestamp ts with T <= ts < T + interval; a record exactly on an
\* interval boundary counts in the candle that starts there.
C26_HalfOpenFromStart ==
    pc = "ohlc_returned" =>
        \A b \in DOMAIN buckets :
            \A k \in 1..Len(buckets[b]) :
                /\ b <= buckets[b][k].timestamp
                /\ buckets[b][k].timestamp < b + IntervalMs

\* What the grouping does: a candle stamped T holds T < ts <= T + interval.
HalfOpenFromEnd ==
    pc = "ohlc_returned" =>
        \A b \in DOMAIN buckets :
            \A k \in 1..Len(buckets[b]) :
                /\ b < buckets[b][k].timestamp
                /\ buckets[b][k].timestamp <= b + IntervalMs

\* A record exactly on the start of a later interval of the window went into
\* the candle of the interval before.
BoundaryRecordCase ==
    /\ pc = "ohlc_returned"
    /\ \E b \in DOMAIN buckets :
          \E k \in 1..Len(buckets[b]) : buckets[b][k].timestamp = b + IntervalMs

----------------------------------------------------------------------------
(* Reason and direction of breakout and continuation results (Spec).       *)

BullishReasons ==
    {"Bullish breakout with aligned signals", "Bullish trend continuation"}

BearishReasons ==
    {"Bearish breakout with aligned signals", "Bearish trend continuation"}

\* C28: in a complete result whose regime is breakout or continuation, a
\* reason that says Bullish never comes with direction bearish, and a reason
\* that says Bearish never comes with direction bullish.
C28_ReasonNeverOpposesDirection ==
    (pc = "done" /\ result.regime \in {REGIME_BREAKOUT, REGIME_CONTINUATION}) =>
        /\ result.reason \in BullishReasons \cup BearishReasons
        /\ result.reason \in BullishReasons => result.direction # DIRECTION_BEARISH
        /\ result.reason \in BearishReasons => result.direction # DIRECTION_BULLISH

\* A bearish continuation returned with direction bearish.
C28_Witness ==
    /\ pc = "done"
    /\ result.regime = REGIME_CONTINUATION
    /\ result.reason = "Bearish trend continuation"
    /\ result.direction = DIRECTION_BEARISH

\* A bullish breakout returned with direction neutral: the taker flow votes
\* against the CVD and the price.
BullishBreakoutNeutralCase ==
    /\ pc = "done"
    /\ result.regime = REGIME_BREAKOUT
    /\ result.reason = "Bullish breakout with aligned signals"
    /\ result.direction = DIRECTION_NEUTRAL

----------------------------------------------------------------------------
(* Pattern penalty of the regimes that require alignment (Spec).           *)

\* C29: a result classified as continuation has pattern penalty exactly 1.0;
\* a result classified as breakout never carries the 0.12 deduction for
\* misaligned CVD and price: its pattern penalty is 1.0, or 0.92 when the
\* CVD ratio is below 0.03 in magnitude.
C29_AlignedRegimesPenalty ==
    pc = "done" =>
        /\ classified.regime = REGIME_CONTINUATION => penalties.pattern = 100
        /\ classified.regime = REGIME_BREAKOUT =>
              /\ (fv.cvd_ratio > 0 /\ fv.price_atr > 0)
                    \/ (fv.cvd_ratio < 0 /\ fv.price_atr < 0)
              /\ penalties.pattern = IF Abs(fv.cvd_ratio) < 30 THEN 92 ELSE 100

\* A continuation scored with pattern penalty 1.0.
C29_Witness ==
    /\ pc = "done"
    /\ classified.regime = REGIME_CONTINUATION
    /\ result.regime = REGIME_CONTINUATION
    /\ penalties.pattern = 100

\* A breakout scored without deduction.
BreakoutFullCase ==
    /\ pc = "done"
    /\ classified.regime = REGIME_BREAKOUT
    /\ penalties.pattern = 100

----------------------------------------------------------------------------
(* Reachability of the regimes under the default thresholds (SpecReach).   *)

RegimeOf(v) ==
    classify_regime(v.cvd_ratio, v.taker_log_ratio, v.oi_delta, v.price_atr,
                    v.rsi, v.price_range_atr, DefaultRow).regime

\* C30: with the default thresholds each of the seven regimes is produced by
\* classify_regime for some indicator values; the regimes collected over
\* successive calls are regimes of the taxonomy, and every call's regime is
\* among them.
C30_EveryRegimeReachable ==
    /\ \A r \in Regimes : \E v \in ReachVectors : RegimeOf(v) = r
    /\ regimes_seen \subseteq Regimes
    /\ pc \in {"score", "done"} =>
          /\ classified.regime = RegimeOf(fv)
          /\ classified.regime \in regimes_seen

\* All seven regimes have been returned.
C30_Witness ==
    /\ pc = "done"
    /\ regimes_seen = Regimes
    /\ Cardinality(regimes_seen) = 7

====
